---- MODULE Spec2Model ----
(***************************************************************************)
(* Peer discovery and session subsystem of the drakon node.                *)
(*                                                                         *)
(* Part 1: DHTManager (src/src/network/DHT.js, lines 10-365): the routing  *)
(* table, the 160 buckets, the XOR distance and the stale-entry sweep.     *)
(* Part 2: NetworkManager (src/src/network/DHT.js from line 384,           *)
(* src/src/network/NetworkManager.js, src/unnamed/part_005): the session   *)
(* registry, connect and disconnect handling, broadcast.                   *)
(*                                                                         *)
(* A node id is a JavaScript string.  It is modelled as the sequence of    *)
(* its characters, a character being its hexadecimal digit value 0..15 or  *)
(* NonHex for any character that is no hexadecimal digit.  The routing     *)
(* table is keyed by the string; the distance is computed on the bytes     *)
(* Buffer.from(id, 'hex') decodes from it.                                 *)
(***************************************************************************)
EXTENDS Integers, Sequences, FiniteSets, TLC

VARIABLES
    nodeId,        \* DHTManager.nodeId (NullId until initialize)
    initialized,   \* DHTManager.initialized
    routingTable,  \* DHTManager.routingTable: a Map, in insertion order
    buckets,       \* DHTManager.buckets: Array(160) of Map; the empty ones are left out
    now,           \* Date.now()
    ret,           \* the last operation: its name, its argument, whether it threw
    closest,       \* the array the last getClosestNodes returned
    call,          \* a call of a pure function: its arguments and what it returned
    variant,       \* which NetworkManager source file runs
    started,       \* NetworkManager.start has completed
    peers,         \* NetworkManager.peers: the session registry, a Map (a Set in part_005)
    conns,         \* the transport connections opened so far
    tasks,         \* the promises the handlers are awaiting
    stats,         \* NetworkManager.stats
    bcast,         \* the broadcast call in progress, or the last one
    proc           \* the asynchronous method in progress: its position and its locals

netVars == <<variant, started, peers, conns, tasks, stats, bcast, proc>>

vars == <<nodeId, initialized, routingTable, buckets, now, ret, closest, call,
          netVars>>

---------------------------------------------------------------------------
(* Bounds of the model *)

\* how many ids of IdTable the routing-table operations draw from
NumIds == 3
\* how far the clock runs past one TTL
MaxSkew == 1
\* the largest count given to getClosestNodes
MaxCount == 2
\* how many ids at one bucket's distance from the local id are added
NumFill == 21
\* how many remote peers there are
NumPeers == 3
\* config.network.maxPeers, the argument of new RoutingTable(.)
MaxPeers == 2
\* how many transport connections are opened in one run
MaxConns == 3
\* how many promises the handlers await at one time
MaxTasks == 2
NumRandomPorts == 2
\* how many calls of node.dial are pending at a time
MaxDials == 2
\* the clock of the dials advances MaxTicks times by TickMs milliseconds
MaxTicks == 2
TickMs == 5000
\* how many peers the discovery reports
NumDialPeers == 2
\* how many frames are received
MaxMessages == 2
MaxRuns == 3
MaxSaves == 4
NumDates == 3
\* how many messages are sent to the peer
MaxSends == 4
\* how many bootstrap peers the configuration lists, how many entries and
\* ids the KnownPeersCache holds
MaxConfigNodes == 2
MaxCache == 2
NumCacheIds == 2
\* how many ids the identities handed to NodeStorage have
NumStoreIds == 2

---------------------------------------------------------------------------
(* Program constants *)

k == 20
NumBuckets == 160
ttl == 1000 * 60 * 30
\* Math.floor(Math.log2(d)) of a negative d, and what Math.max/Math.min make of it
NaN == -1
\* a character that is no hexadecimal digit
NonHex == 16
NullId == <<>>

---------------------------------------------------------------------------
(* Ids the model draws from.  "00000000" is the local node.  "80000000"    *)
(* differs from it in the top bit of a 4-byte id.  The "12D3K." ids are    *)
(* shaped like libp2p peer ids ("12D3KooW..."): hexadecimal up to the K.   *)

IdTable ==
    << <<0,0,0,0,0,0,0,0>>,
       <<8,0,0,0,0,0,0,0>>,
       <<0,0,0,0,0,0,0,1>>,
       <<0,0,0,0,0,0,1,0>>,
       <<1,2,13,3,NonHex,1>>,
       <<1,2,13,3,NonHex,2>>,
       <<0,1,0,0,0,0,0,0,0,0>>,
       <<15,15>>,
       <<0,0,0,1>>,
       <<7,15,15,15,15,15,15,15>>,
       <<15,15,15,15,15,15,15,15>>,
       <<0,0,8,0,0,0,0,0,0,0>> >>

Ids == {IdTable[i] : i \in 1..NumIds}
SelfId == IdTable[1]
AllIds == {IdTable[i] : i \in 1..Len(IdTable)}

---------------------------------------------------------------------------
(* JavaScript Map: key/value pairs in insertion order, one pair per key.   *)
(* An entry carries its key in the field nodeId.                           *)

MapHas(m, key) == \E i \in 1..Len(m) : m[i].nodeId = key

MapIndex(m, key) == CHOOSE i \in 1..Len(m) : m[i].nodeId = key

MapGet(m, key) == m[MapIndex(m, key)]

MapSet(m, e) ==
    IF MapHas(m, e.nodeId)
    THEN [m EXCEPT ![MapIndex(m, e.nodeId)] = e]
    ELSE Append(m, e)

MapDelete(m, key) == SelectSeq(m, LAMBDA e : e.nodeId # key)

MapKeys(m) == {m[i].nodeId : i \in 1..Len(m)}

---------------------------------------------------------------------------
(* Buffer.from(id, 'hex'): two digits a byte, cut at the first pair that   *)
(* is not hexadecimal; an odd last digit is dropped.                       *)

RECURSIVE HexDecode(_)
HexDecode(s) ==
    IF Len(s) >= 2 /\ s[1] < NonHex /\ s[2] < NonHex
    THEN <<s[1] * 16 + s[2]>> \o HexDecode(SubSeq(s, 3, Len(s)))
    ELSE <<>>

\* a ^ b on bytes
RECURSIVE XorBits(_, _, _)
XorBits(a, b, n) ==
    IF n = 0 THEN 0
    ELSE (IF (a % 2) # (b % 2) THEN 1 ELSE 0)
         + 2 * XorBits(a \div 2, b \div 2, n - 1)

XorByte(a, b) == XorBits(a, b, 8)

\* (distance << 8) | x on 32-bit integers: the top byte is shifted out and
\* bit 31 is the sign
Shl8Or(distance, x) ==
    LET low == distance % 16777216
    IN  IF low >= 8388608
        THEN (low - 16777216) * 256 + x
        ELSE low * 256 + x

RECURSIVE XorFold(_, _, _, _, _)
XorFold(id1, id2, i, length, distance) ==
    IF i > length THEN distance
    ELSE XorFold(id1, id2, i + 1, length,
                 Shl8Or(distance, XorByte(id1[i], id2[i])))

Min(a, b) == IF a < b THEN a ELSE b
Max(a, b) == IF a > b THEN a ELSE b

ByteAt(id, i) == IF i <= Len(id) THEN id[i] ELSE 0

RECURSIVE XorFoldPadded(_, _, _, _, _)
XorFoldPadded(id1, id2, i, length, distance) ==
    IF i > length THEN distance
    ELSE XorFoldPadded(id1, id2, i + 1, length,
                       Shl8Or(distance, XorByte(ByteAt(id1, i), ByteAt(id2, i))))

\* _calculateDistance looping to id1.length instead of the shorter length
_calculateDistanceLen1(nodeId1, nodeId2) ==
    LET id1 == HexDecode(nodeId1)
        id2 == HexDecode(nodeId2)
    IN  XorFoldPadded(id1, id2, 1, Len(id1), 0)

_calculateDistance(nodeId1, nodeId2) ==
    LET id1 == HexDecode(nodeId1)
        id2 == HexDecode(nodeId2)
        length == Min(Len(id1), Len(id2))
    IN  XorFold(id1, id2, 1, length, 0)

RECURSIVE FloorLog2(_)
FloorLog2(d) == IF d <= 1 THEN 0 ELSE 1 + FloorLog2(d \div 2)

\* Math.log2(0) is -Infinity, which Math.max(0, .) makes 0; Math.log2 of a
\* negative number is NaN, which Math.max and Math.min hand on
_getBucketIndex(self, id) ==
    LET distance == _calculateDistance(self, id)
    IN  IF distance < 0 THEN NaN
        ELSE IF distance = 0 THEN 0
        ELSE Min(Max(0, FloorLog2(distance)), 159)

---------------------------------------------------------------------------
(* Routing entries.  info is what the caller passes: a field it does not   *)
(* carry is "undef".                                                       *)

Entry(id, ip, isOnline, lastSeen) ==
    [nodeId |-> id, ip |-> ip, isOnline |-> isOnline, lastSeen |-> lastSeen]

\* {...old, ...info}
Spread(old, info) ==
    [ip |-> IF info.ip = "undef" THEN old.ip ELSE info.ip,
     isOnline |-> IF info.isOnline = "undef" THEN old.isOnline ELSE info.isOnline]

NoInfo == [ip |-> "undef", isOnline |-> "undef"]

\* what the callers of addNode and updateNode pass
PeerInfo == [ip |-> "ip1", isOnline |-> "undef"]

\* what initialize passes for the local node
LocalInfo == [ip |-> "myIp", isOnline |-> "undef"]

\* buckets is written down as the function from the indices of its
\* non-empty Maps; every other index below NumBuckets holds an empty Map
EmptyBuckets == [b \in {} |-> <<>>]

BucketAt(bk, b) == IF b \in DOMAIN bk THEN bk[b] ELSE <<>>

BucketPut(bk, b, m) ==
    [x \in (IF m = <<>> THEN DOMAIN bk \ {b} ELSE DOMAIN bk \cup {b}) |->
        IF x = b THEN m ELSE bk[x]]

\* addNode with the table kept as a list that is pushed to
addNodeTablePush(rt, id, info, t) ==
    Append(rt, Entry(id, info.ip, info.isOnline, t))

\* addNode: routingTable.set, then buckets[bucketIndex].set when the index
\* is in range
addNodeTable(rt, id, info, t) ==
    MapSet(rt, Entry(id, info.ip, info.isOnline, t))

addNodeBuckets(bk, self, id, info, t) ==
    LET bucketIndex == _getBucketIndex(self, id)
    IN  IF bucketIndex >= 0 /\ bucketIndex < NumBuckets
        THEN BucketPut(bk, bucketIndex,
                 MapSet(BucketAt(bk, bucketIndex),
                        Entry(id, info.ip, info.isOnline, t)))
        ELSE bk

\* updateNode on an id the routing table holds
updateNodeTable(rt, id, info, t) ==
    LET merged == Spread(MapGet(rt, id), info)
    IN  IF MapHas(rt, id)
        THEN MapSet(rt, Entry(id, merged.ip, merged.isOnline, t))
        ELSE addNodeTable(rt, id, info, t)

updateNodeBuckets(rt, bk, self, id, info, t) ==
    LET bucketIndex == _getBucketIndex(self, id)
        old == IF MapHas(BucketAt(bk, bucketIndex), id)
               THEN MapGet(BucketAt(bk, bucketIndex), id) ELSE NoInfo
        merged == Spread(old, info)
    IN  IF ~MapHas(rt, id) THEN addNodeBuckets(bk, self, id, info, t)
        ELSE IF bucketIndex >= 0 /\ bucketIndex < NumBuckets
        THEN BucketPut(bk, bucketIndex,
                 MapSet(BucketAt(bk, bucketIndex),
                        Entry(id, merged.ip, merged.isOnline, t)))
        ELSE bk

\* removeNode: buckets[NaN] is undefined, so buckets[NaN].delete throws
\* after routingTable.delete has been done
removeNodeThrows(rt, self, id) ==
    MapHas(rt, id) /\ _getBucketIndex(self, id) = NaN

removeNodeTable(rt, id) == MapDelete(rt, id)

removeNodeBuckets(rt, bk, self, id) ==
    LET bucketIndex == _getBucketIndex(self, id)
    IN  IF MapHas(rt, id) /\ bucketIndex # NaN
        THEN BucketPut(bk, bucketIndex, MapDelete(BucketAt(bk, bucketIndex), id))
        ELSE bk

IsStale(e, t) == t - e.lastSeen > ttl

\* cleanupStaleNodes: the loop over routingTable.entries(), from entry i of
\* the entries the loop started with; a throw of removeNode ends it
RECURSIVE cleanupLoop(_, _, _, _, _, _)
cleanupLoop(entries, i, rt, bk, self, t) ==
    IF i > Len(entries) THEN [rt |-> rt, bk |-> bk, threw |-> FALSE]
    ELSE IF ~IsStale(entries[i], t)
    THEN cleanupLoop(entries, i + 1, rt, bk, self, t)
    ELSE IF removeNodeThrows(rt, self, entries[i].nodeId)
    THEN [rt |-> removeNodeTable(rt, entries[i].nodeId), bk |-> bk,
          threw |-> TRUE]
    ELSE cleanupLoop(entries, i + 1,
                     removeNodeTable(rt, entries[i].nodeId),
                     removeNodeBuckets(rt, bk, self, entries[i].nodeId),
                     self, t)

cleanupStaleNodes(rt, bk, self, t) == cleanupLoop(rt, 1, rt, bk, self, t)

---------------------------------------------------------------------------
(* getClosestNodes: map every entry to its distance, sort by               *)
(* a.distance - b.distance (Array.prototype.sort is stable), slice.        *)

RECURSIVE InsertSorted(_, _, _)
InsertSorted(sorted, e, target) ==
    IF sorted = <<>> THEN <<e>>
    ELSE IF _calculateDistance(target, Head(sorted).nodeId)
            <= _calculateDistance(target, e.nodeId)
    THEN <<Head(sorted)>> \o InsertSorted(Tail(sorted), e, target)
    ELSE <<e>> \o sorted

RECURSIVE SortByDistance(_, _)
SortByDistance(entries, target) ==
    IF entries = <<>> THEN <<>>
    ELSE InsertSorted(SortByDistance(SubSeq(entries, 1, Len(entries) - 1), target),
                      entries[Len(entries)], target)

getClosestNodes(rt, targetId, count) ==
    IF Len(rt) = 0 THEN <<>>
    ELSE SubSeq(SortByDistance(rt, targetId), 1, Min(count, Len(rt)))

---------------------------------------------------------------------------
(* Part 2: the session registry of the NetworkManager.  Three source files *)
(* define a NetworkManager: src/src/network/DHT.js (libp2p, peers is a Map *)
(* of session records), src/src/network/NetworkManager.js (discovery-swarm,*)
(* handlers are synchronous) and src/unnamed/part_005 (libp2p, peers is a  *)
(* Set of peer ids).  variant says which one runs.                         *)

Variants == {"libp2p", "swarm", "pubsub"}

\* the remote peers: libp2p peer ids "12D3K1", "12D3K2", ...
PeerIdOf(i) == <<1, 2, 13, 3, NonHex, i>>
PeerIds == {PeerIdOf(i) : i \in 1..NumPeers}

\* a session record of peers; part_005 keeps the bare peer id (conn 0)
Session(id, c, t) == [nodeId |-> id, conn |-> c, status |-> "connected", lastSeen |-> t]

\* a transport connection: open, closing (close/destroy/hangUp called, or
\* rejected) or closed (its close event has been dispatched); handled says
\* whether the swarm variant has registered its 'close' listener on it
Conn(id, state, handled) == [peer |-> id, state |-> state, handled |-> handled]

\* a connection whose close event has been dispatched: nothing refers to
\* what it was any more
ClosedConn == Conn(NullId, "closed", FALSE)

\* a promise a handler awaits for a peer: kind is "dial", "exchange",
\* "close" or "hangUp".  The code after the await uses the peer id only.
\* tasks is a set: one promise of a kind is awaited per peer at a time.
Task(kind, id) == [kind |-> kind, id |-> id]

\* a value a JavaScript call returns: its type and, for a number, the
\* number; a boolean has val 1 for true and 0 for false
JsValue(type, val) == [type |-> type, val |-> val]
NoValue == JsValue("none", 0)

\* successCount is the counter of the loop (sentCount, successCount);
\* result is what the call returned
NoBroadcast ==
    [state |-> "idle", current |-> NullId, visited |-> {}, attempted |-> <<>>,
     failed |-> {}, stable |-> {}, threw |-> FALSE, successCount |-> 0,
     result |-> NoValue]

NewStats == [activeConnections |-> 0]

\* what _exchangeDHTInfo and _disconnectPeer pass to updateNode
ExchangeInfo == [ip |-> "ip2", isOnline |-> "undef"]
OfflineInfo == [ip |-> "undef", isOnline |-> "false"]

\* the node ids a dht_exchange response can carry; NullId is no response,
\* a failed stream or a response without nodeId
ResponseIds == {NullId, IdTable[3]}

\* const timeout = 5 * 60 * 1000 of the swarm variant's cleanup interval
inactiveTimeout == 5 * 60 * 1000

\* no asynchronous method of the node is in progress
NoProc == [op |-> "none"]

NetNew ==
    /\ started = FALSE
    /\ peers = <<>>
    /\ conns = <<>>
    /\ tasks = {}
    /\ stats = NewStats
    /\ bcast = NoBroadcast
    /\ proc = NoProc

---------------------------------------------------------------------------
(* Operations of the DHTManager *)

Ret(op, id, threw) == [op |-> op, id |-> id, threw |-> threw]

NoCall == [fn |-> "none", a |-> NullId, b |-> NullId, out |-> <<>>]

Init ==
    /\ nodeId = NullId
    /\ initialized = FALSE
    /\ routingTable = <<>>
    /\ buckets = EmptyBuckets
    /\ now = 0
    /\ ret = Ret("new", NullId, FALSE)
    /\ closest = <<>>
    /\ call = NoCall
    /\ variant = "libp2p"
    /\ NetNew

\* initialize(nodeId): sets the id and adds the local node
Initialize ==
    /\ ~initialized
    /\ nodeId' = SelfId
    /\ routingTable' = addNodeTable(routingTable, SelfId, LocalInfo, now)
    /\ buckets' = addNodeBuckets(buckets, SelfId, SelfId, LocalInfo, now)
    /\ initialized' = TRUE
    /\ ret' = Ret("initialize", SelfId, FALSE)
    /\ UNCHANGED <<now, closest, call, netVars>>

\* addNode(nodeId, info)
AddNode ==
    \E id \in Ids, info \in {PeerInfo} :
        /\ initialized
        /\ routingTable' = addNodeTable(routingTable, id, info, now)
        /\ buckets' = addNodeBuckets(buckets, nodeId, id, info, now)
        /\ ret' = Ret("addNode", id, FALSE)
        /\ closest' = <<>>
        /\ UNCHANGED <<nodeId, initialized, now, call, netVars>>

\* updateNode(nodeId, info)
UpdateNode ==
    \E id \in Ids, info \in {PeerInfo} :
        /\ initialized
        /\ routingTable' = updateNodeTable(routingTable, id, info, now)
        /\ buckets' = updateNodeBuckets(routingTable, buckets, nodeId, id, info, now)
        /\ ret' = Ret("updateNode", id, FALSE)
        /\ closest' = <<>>
        /\ UNCHANGED <<nodeId, initialized, now, call, netVars>>

\* removeNode(nodeId)
RemoveNode ==
    \E id \in Ids :
        /\ initialized
        /\ routingTable' = removeNodeTable(routingTable, id)
        /\ buckets' = removeNodeBuckets(routingTable, buckets, nodeId, id)
        /\ ret' = Ret("removeNode", id, removeNodeThrows(routingTable, nodeId, id))
        /\ closest' = <<>>
        /\ UNCHANGED <<nodeId, initialized, now, call, netVars>>

\* cleanupStaleNodes()
CleanupStaleNodes ==
    LET r == cleanupStaleNodes(routingTable, buckets, nodeId, now)
    IN  /\ initialized
        /\ routingTable' = r.rt
        /\ buckets' = r.bk
        /\ ret' = Ret("cleanupStaleNodes", NullId, r.threw)
        /\ closest' = <<>>
        /\ UNCHANGED <<nodeId, initialized, now, call, netVars>>

\* getClosestNodes(targetId, count)
GetClosestNodes ==
    \E targetId \in Ids, count \in 0..MaxCount :
        /\ initialized
        /\ closest' = getClosestNodes(routingTable, targetId, count)
        /\ ret' = Ret("getClosestNodes", <<targetId, count>>, FALSE)
        /\ UNCHANGED <<nodeId, initialized, routingTable, buckets, now, call, netVars>>

\* the clock advances: by one TTL, then by milliseconds
Tick ==
    \E d \in {IF now < ttl THEN ttl ELSE 1} :
        /\ now + d <= ttl + MaxSkew
        /\ now' = now + d
        /\ ret' = Ret("tick", NullId, FALSE)
        /\ closest' = <<>>
        /\ UNCHANGED <<nodeId, initialized, routingTable, buckets, call, netVars>>

NextDHT ==
    \/ Initialize
    \/ AddNode
    \/ UpdateNode
    \/ RemoveNode
    \/ CleanupStaleNodes
    \/ GetClosestNodes
    \/ Tick

SpecDHT == Init /\ [][NextDHT]_vars

---------------------------------------------------------------------------
(* The distance as a pure function: the arguments are drawn at the start,  *)
(* the action applies _calculateDistance to them.                          *)

InitDist ==
    /\ nodeId = NullId
    /\ initialized = FALSE
    /\ routingTable = <<>>
    /\ buckets = EmptyBuckets
    /\ now = 0
    /\ ret = Ret("new", NullId, FALSE)
    /\ closest = <<>>
    /\ \E a \in AllIds, b \in AllIds :
           call = [fn |-> "none", a |-> a, b |-> b, out |-> <<>>]
    /\ variant = "libp2p"
    /\ NetNew

CalculateDistance ==
    /\ call.fn = "none"
    /\ call' = [call EXCEPT !.fn = "_calculateDistance",
                            !.out = <<_calculateDistance(call.a, call.b),
                                      _calculateDistance(call.b, call.a),
                                      _calculateDistance(call.a, call.a)>>]
    /\ UNCHANGED <<nodeId, initialized, routingTable, buckets, now, ret, closest, netVars>>

NextDist == CalculateDistance

SpecDist == InitDist /\ [][NextDist]_vars

\* _getBucketIndex as a pure function of the local id and the id asked for
GetBucketIndex ==
    /\ call.fn = "none"
    /\ call' = [call EXCEPT !.fn = "_getBucketIndex",
                            !.out = <<_getBucketIndex(call.a, call.b)>>]
    /\ UNCHANGED <<nodeId, initialized, routingTable, buckets, now, ret, closest, netVars>>

SpecBucket == InitDist /\ [][GetBucketIndex]_vars

---------------------------------------------------------------------------
(* Filling one bucket: the local node, then NumFill ids "0000002x",        *)
(* "0000003x" whose distance from the local id "00000000" is 32..63        *)
(* (bucket 5), each added once by addNode, in the order of their index.    *)

FillId(i) == <<0, 0, 0, 0, 0, 0, 2 + (i \div 16), i % 16>>

FillAddNode ==
    \E i \in 0..(NumFill - 1) :
        /\ initialized
        /\ Len(routingTable) = i + 1
        /\ routingTable' = addNodeTable(routingTable, FillId(i), PeerInfo, now)
        /\ buckets' = addNodeBuckets(buckets, nodeId, FillId(i), PeerInfo, now)
        /\ ret' = Ret("addNode", FillId(i), FALSE)
        /\ closest' = <<>>
        /\ UNCHANGED <<nodeId, initialized, now, call, netVars>>

NextFill ==
    \/ Initialize
    \/ FillAddNode
    \/ Tick

SpecFill == Init /\ [][NextFill]_vars

---------------------------------------------------------------------------
(* Operations of the NetworkManager.  An async handler is cut at the       *)
(* promises it awaits on the network: the part before the await is one     *)
(* action, the settling of the promise with the code after it another.     *)
(* _getPeerInfo awaits nothing, so addNode runs with the first part of     *)
(* _handlePeerConnect.  ret names the handler that ran when a property     *)
(* reads its outcome, and is "event" for the others.                       *)

NoOpenConn(id) ==
    \A c \in 1..Len(conns) : conns[c].peer = id => conns[c].state # "open"

\* connection.close(), conn.destroy(), node.hangUp on a connection
closeCalled(cs, c) ==
    [cs EXCEPT ![c].state = IF @ = "open" THEN "closing" ELSE @]

hangUpCalled(cs, id) ==
    [c \in 1..Len(cs) |->
        IF cs[c].peer = id /\ cs[c].state = "open"
        THEN [cs[c] EXCEPT !.state = "closing"] ELSE cs[c]]

\* the RoutingTable class of the swarm variant (./RoutingTable is not among
\* the sources): maxPeers is the constructor's argument, addNode inserts or
\* refreshes, removeNode deletes, cleanup drops the stale entries
RoutingTable_maxPeers == MaxPeers
RoutingTable_addNode(rt, id, t) == MapSet(rt, Entry(id, "ip1", "undef", t))
RoutingTable_removeNode(rt, id) == MapDelete(rt, id)
RoutingTable_cleanup(rt, t) == SelectSeq(rt, LAMBDA e : ~IsStale(e, t))

\* a send whose failure ends the broadcast with a throw
sendOutcomeAbort(b, id, ok) ==
    IF ok THEN [b EXCEPT !.attempted = Append(@, id), !.successCount = @ + 1]
    ELSE [b EXCEPT !.attempted = Append(@, id), !.failed = @ \cup {id},
                   !.state = "done", !.threw = TRUE]

\* one send of a broadcast has settled: a failure is caught and logged,
\* the loop goes on either way
sendOutcome(b, id, ok) ==
    [b EXCEPT !.attempted = Append(@, id),
              !.failed = IF ok THEN @ ELSE @ \cup {id},
              !.successCount = IF ok THEN @ + 1 ELSE @]

\* the synchronous loop over peers.entries(); fails are the peers whose
\* send throws
RECURSIVE broadcastLoop(_, _, _, _)
broadcastLoop(b, ps, i, fails) ==
    IF i > Len(ps) \/ b.state # "running" THEN b
    ELSE IF ps[i].status = "connected"
    THEN broadcastLoop(sendOutcome(b, ps[i].nodeId, ps[i].nodeId \notin fails),
                       ps, i + 1, fails)
    ELSE broadcastLoop(b, ps, i + 1, fails)

\* the value broadcast returns once its loop has ended: nothing in
\* DHT.js, sentCount > 0 in the swarm variant, successCount in part_005
broadcastReturn(v, b) ==
    IF v = "libp2p" THEN JsValue("undefined", 0)
    ELSE IF v = "swarm"
    THEN JsValue("boolean", IF b.successCount > 0 THEN 1 ELSE 0)
    ELSE JsValue("number", b.successCount)

broadcastAll(v, ps, fails) ==
    LET b == broadcastLoop([NoBroadcast EXCEPT !.state = "running",
                                               !.stable = MapKeys(ps)],
                           ps, 1, fails)
    IN  [b EXCEPT !.state = "done",
                  !.result = IF b.threw THEN NoValue ELSE broadcastReturn(v, b)]

\* the iterator of a live Set: the first entry not visited yet
nextPeer(ps, visited) ==
    IF \E i \in 1..Len(ps) : ps[i].nodeId \notin visited
    THEN ps[CHOOSE i \in 1..Len(ps) :
                /\ ps[i].nodeId \notin visited
                /\ \A j \in 1..(i - 1) : ps[j].nodeId \in visited].nodeId
    ELSE NullId

\* peers.delete(id) under a running iteration: a later add is a new entry
dropPeer(b, id) ==
    IF b.state = "running"
    THEN [b EXCEPT !.visited = @ \ {id}, !.stable = @ \ {id}]
    ELSE NoBroadcast

\* bcast records one call of broadcast; the record of a call that has
\* returned is dropped when another operation runs
bcastAfter == IF bcast.state = "running" THEN bcast ELSE NoBroadcast

\* The remote peers are interchangeable: nothing in the code tells one
\* peer id from another.  A peer id no part of the state refers to is
\* taken in the order of its index.
Known(id) ==
    \/ MapHas(peers, id)
    \/ MapHas(routingTable, id)
    \/ \E c \in 1..Len(conns) : conns[c].peer = id
    \/ \E t \in tasks : t.id = id
    \/ \E i \in 1..Len(bcast.attempted) : bcast.attempted[i] = id
    \/ ret.id = id

MayAppear(id) ==
    Known(id) \/ \A j \in 1..(id[Len(id)] - 1) : Known(PeerIdOf(j))

InitNet ==
    /\ nodeId = NullId
    /\ initialized = FALSE
    /\ routingTable = <<>>
    /\ buckets = EmptyBuckets
    /\ now = 0
    /\ ret = Ret("new", NullId, FALSE)
    /\ closest = <<>>
    /\ call = NoCall
    /\ variant \in Variants
    /\ NetNew

\* start(): the libp2p variant initializes the DHT with the node id
NetStart ==
    /\ ~started
    /\ started' = TRUE
    /\ IF variant = "libp2p"
       THEN /\ nodeId' = SelfId
            /\ routingTable' = addNodeTable(routingTable, SelfId, LocalInfo, now)
            /\ buckets' = addNodeBuckets(buckets, SelfId, SelfId, LocalInfo, now)
            /\ initialized' = TRUE
       ELSE UNCHANGED <<nodeId, initialized, routingTable, buckets>>
    /\ ret' = Ret("start", NullId, FALSE)
    /\ UNCHANGED <<now, closest, call, proc, variant, peers, conns, tasks, stats, bcast>>

---------------------------------------------------------------------------
(* The libp2p variant, src/src/network/DHT.js.  libp2p dispatches          *)
(* peer:connect for the first connection to a peer and peer:disconnect     *)
(* when the last one has closed.                                           *)

\* _handlePeerDiscovery up to the await of the dial
HandlePeerDiscovery ==
    \E id \in PeerIds :
        /\ variant = "libp2p" /\ started
        /\ MayAppear(id)
        /\ peers' = IF MapHas(peers, id)
                    THEN MapSet(peers, [MapGet(peers, id) EXCEPT !.lastSeen = now])
                    ELSE peers
        /\ MapHas(peers, id) \/ Len(peers) >= MaxPeers
              \/ Cardinality(tasks \cup {Task("dial", id)}) <= MaxTasks
        /\ tasks' = IF ~MapHas(peers, id) /\ Len(peers) < MaxPeers
                    THEN tasks \cup {Task("dial", id)}
                    ELSE tasks
        /\ ret' = Ret("event", NullId, FALSE)
        /\ bcast' = bcastAfter
        /\ UNCHANGED <<nodeId, initialized, routingTable, buckets, now, closest,
                       call, proc, variant, started, conns, stats>>

\* _handlePeerConnect up to the await of _exchangeDHTInfo; rest are the
\* promises still awaited
PeerConnected(id, rest) ==
    LET c == Len(conns) + 1
    IN  /\ Len(conns) < MaxConns
        /\ Cardinality(rest \cup {Task("exchange", id)}) <= MaxTasks
        /\ conns' = Append(conns, Conn(id, "open", FALSE))
        /\ peers' = MapSet(peers, Session(id, c, now))
        /\ stats' = [stats EXCEPT !.activeConnections = @ + 1]
        /\ routingTable' = addNodeTable(routingTable, id, PeerInfo, now)
        /\ buckets' = addNodeBuckets(buckets, nodeId, id, PeerInfo, now)
        /\ tasks' = rest \cup {Task("exchange", id)}
        /\ bcast' = bcastAfter
        /\ UNCHANGED <<nodeId, initialized, now, closest, call, proc, variant,
                       started>>

\* peer:connect for a connection the remote peer opened
HandlePeerConnect ==
    \E id \in PeerIds :
        /\ variant = "libp2p" /\ started
        /\ MayAppear(id)
        /\ NoOpenConn(id)
        /\ PeerConnected(id, tasks)
        /\ ret' = Ret("_handlePeerConnect", id, FALSE)

\* node.dial(id) resolves with a new connection: peer:connect is dispatched
DialResolves ==
    \E t \in tasks :
        /\ t.kind = "dial"
        /\ NoOpenConn(t.id)
        /\ PeerConnected(t.id, tasks \ {t})
        /\ ret' = Ret("dial", t.id, FALSE)

\* node.dial(id) rejects, the 5 s timer fires first, or the dial resolves
\* with a connection that is already open
DialEnds ==
    \E t \in tasks :
        /\ t.kind = "dial"
        /\ tasks' = tasks \ {t}
        /\ ret' = Ret("event", NullId, FALSE)
        /\ bcast' = bcastAfter
        /\ UNCHANGED <<nodeId, initialized, routingTable, buckets, now, closest,
                       call, proc, variant, started, peers, conns, stats>>

\* _exchangeDHTInfo settles: updateNode(response.nodeId, ...) when the
\* response carries a node id
ExchangeSettles ==
    \E t \in tasks, resp \in ResponseIds :
        /\ t.kind = "exchange"
        /\ tasks' = tasks \ {t}
        /\ IF resp # NullId
           THEN /\ routingTable' = updateNodeTable(routingTable, resp, ExchangeInfo, now)
                /\ buckets' = updateNodeBuckets(routingTable, buckets, nodeId, resp,
                                                ExchangeInfo, now)
           ELSE UNCHANGED <<routingTable, buckets>>
        /\ ret' = Ret("event", NullId, FALSE)
        /\ bcast' = bcastAfter
        /\ UNCHANGED <<nodeId, initialized, now, closest, call, proc, variant, started,
                       peers, conns, stats>>

\* _handlePeerError: _disconnectPeer up to the await of connection.close()
HandlePeerError ==
    \E id \in PeerIds :
        /\ variant = "libp2p" /\ started
        /\ MapHas(peers, id)
        /\ Cardinality(tasks \cup {Task("close", id)}) <= MaxTasks
        /\ conns' = closeCalled(conns, MapGet(peers, id).conn)
        /\ tasks' = tasks \cup {Task("close", id)}
        /\ ret' = Ret("event", NullId, FALSE)
        /\ bcast' = bcastAfter
        /\ UNCHANGED <<nodeId, initialized, routingTable, buckets, now, closest,
                       call, proc, variant, started, peers, stats>>

\* a connection has closed; for the last one of its peer peer:disconnect is
\* dispatched: _handlePeerDisconnect, _disconnectPeer up to the await
HandlePeerDisconnect ==
    \E c \in 1..Len(conns) :
        LET id == conns[c].peer
            cs == [conns EXCEPT ![c] = ClosedConn]
        IN  /\ variant = "libp2p"
            /\ conns[c].state \in {"open", "closing"}
            /\ IF MapHas(peers, id) /\
                  (\A d \in 1..Len(cs) : cs[d].peer = id => cs[d].state # "open")
               THEN /\ Cardinality(tasks \cup {Task("close", id)}) <= MaxTasks
                    /\ conns' = closeCalled(cs, MapGet(peers, id).conn)
                    /\ tasks' = tasks \cup {Task("close", id)}
               ELSE /\ conns' = cs
                    /\ UNCHANGED tasks
            /\ ret' = Ret("event", NullId, FALSE)
            /\ bcast' = bcastAfter
            /\ UNCHANGED <<nodeId, initialized, routingTable, buckets, now,
                           closest, call, proc, variant, started, peers, stats>>

\* connection.close() settles: on success the session is deleted and the
\* routing entry, when there is one, is updated as offline; a rejection is
\* caught and logged
CloseSettles ==
    \E t \in tasks, ok \in BOOLEAN :
        /\ t.kind = "close"
        /\ tasks' = tasks \ {t}
        /\ IF ok
           THEN /\ peers' = MapDelete(peers, t.id)
                /\ stats' = [stats EXCEPT !.activeConnections = @ - 1]
                /\ IF MapHas(routingTable, t.id)
                   THEN /\ routingTable' =
                              updateNodeTable(routingTable, t.id, OfflineInfo, now)
                        /\ buckets' = updateNodeBuckets(routingTable, buckets, nodeId,
                                                        t.id, OfflineInfo, now)
                   ELSE UNCHANGED <<routingTable, buckets>>
           ELSE UNCHANGED <<peers, stats, routingTable, buckets>>
        /\ ret' = Ret("_disconnectPeer", t.id, ~ok)
        /\ bcast' = bcastAfter
        /\ UNCHANGED <<nodeId, initialized, now, closest, call, proc, variant, started,
                       conns>>

\* broadcast(message): the loop hands each session record, which has no
\* newStream method, to the send, so every send throws before any await
BroadcastLibp2p ==
    /\ variant = "libp2p" /\ started
    /\ bcast' = broadcastAll(variant, peers, MapKeys(peers))
    /\ ret' = Ret("broadcast", NullId, bcast'.threw)
    /\ UNCHANGED <<nodeId, initialized, routingTable, buckets, now, closest,
                   call, proc, variant, started, peers, conns, tasks, stats>>

\* _performDHTMaintenance: cleanupStaleNodes, a throw of it is caught
PerformDHTMaintenance ==
    LET r == cleanupStaleNodes(routingTable, buckets, nodeId, now)
    IN  /\ variant = "libp2p" /\ started
        /\ routingTable' = r.rt
        /\ buckets' = r.bk
        /\ ret' = Ret("event", NullId, FALSE)
        /\ bcast' = bcastAfter
        /\ UNCHANGED <<nodeId, initialized, now, closest, call, proc, variant, started,
                       peers, conns, tasks, stats>>

---------------------------------------------------------------------------
(* The swarm variant, src/src/network/NetworkManager.js: every handler is  *)
(* synchronous.  routingTable holds the entries of its RoutingTable.       *)

\* _handleConnection(conn, info)
HandleConnection ==
    \E id \in PeerIds :
        LET c == Len(conns) + 1
        IN  /\ variant = "swarm" /\ started
            /\ MayAppear(id)
            /\ Len(conns) < MaxConns
            /\ IF Len(peers) >= RoutingTable_maxPeers
               THEN /\ conns' = Append(conns, Conn(id, "closing", FALSE))
                    /\ UNCHANGED <<peers, routingTable, stats>>
               ELSE /\ conns' = Append(conns, Conn(id, "open", TRUE))
                    /\ peers' = MapSet(peers, Session(id, c, now))
                    /\ routingTable' = RoutingTable_addNode(routingTable, id, now)
                    /\ stats' = [stats EXCEPT !.activeConnections = Len(peers')]
            /\ ret' = Ret("_handleConnection", id, FALSE)
            /\ bcast' = bcastAfter
            /\ UNCHANGED <<nodeId, initialized, buckets, now, closest, call, proc,
                           variant, started, tasks>>

\* _disconnectPeer(peerId, peer) on a registry ps, connections cs and
\* routing table rt
disconnectPeerSwarm(ps, cs, rt, id) ==
    [ps |-> MapDelete(ps, id),
     cs |-> closeCalled(cs, MapGet(ps, id).conn),
     rt |-> RoutingTable_removeNode(rt, id)]

\* the 'close' event of a connection: _handlePeerDisconnect(peerId) when
\* the listener was registered on it
ConnClose ==
    \E c \in 1..Len(conns) :
        LET id == conns[c].peer
            cs == [conns EXCEPT ![c] = ClosedConn]
            r == disconnectPeerSwarm(peers, cs, routingTable, id)
        IN  /\ variant = "swarm"
            /\ conns[c].state \in {"open", "closing"}
            /\ IF conns[c].handled /\ MapHas(peers, id)
               THEN /\ peers' = r.ps
                    /\ conns' = r.cs
                    /\ routingTable' = r.rt
                    /\ stats' = [stats EXCEPT !.activeConnections = Len(r.ps)]
                    /\ ret' = Ret("_disconnectPeer", id, FALSE)
               ELSE /\ conns' = cs
                    /\ ret' = Ret("event", NullId, FALSE)
                    /\ UNCHANGED <<peers, routingTable, stats>>
            /\ bcast' = bcastAfter
            /\ UNCHANGED <<nodeId, initialized, buckets, now, closest, call, proc,
                           variant, started, tasks>>

\* broadcast(type, data): conn.write throws for the peers in fails
BroadcastSwarm ==
    \E fails \in SUBSET MapKeys(peers) :
        /\ variant = "swarm" /\ started
        /\ bcast' = broadcastAll(variant, peers, fails)
        /\ ret' = Ret("broadcast", NullId, bcast'.threw)
        /\ UNCHANGED <<nodeId, initialized, routingTable, buckets, now, closest,
                       call, proc, variant, started, peers, conns, tasks, stats>>

\* the loop of the cleanup interval over peers.entries(), from entry i of
\* the entries it started with
RECURSIVE cleanupIntervalLoop(_, _, _, _, _, _)
cleanupIntervalLoop(entries, i, ps, cs, rt, t) ==
    IF i > Len(entries) THEN [ps |-> ps, cs |-> cs, rt |-> rt]
    ELSE IF t - entries[i].lastSeen > inactiveTimeout
    THEN LET r == disconnectPeerSwarm(ps, cs, rt, entries[i].nodeId)
         IN  cleanupIntervalLoop(entries, i + 1, r.ps, r.cs, r.rt, t)
    ELSE cleanupIntervalLoop(entries, i + 1, ps, cs, rt, t)

\* _startCleanupInterval's callback: the inactive sessions are
\* disconnected, then routingTable.cleanup()
CleanupInterval ==
    LET r == cleanupIntervalLoop(peers, 1, peers, conns, routingTable, now)
    IN  /\ variant = "swarm" /\ started
        /\ peers' = r.ps
        /\ conns' = r.cs
        /\ routingTable' = RoutingTable_cleanup(r.rt, now)
        /\ stats' = IF r.ps = peers THEN stats
                    ELSE [stats EXCEPT !.activeConnections = Len(r.ps)]
        /\ ret' = Ret("event", NullId, FALSE)
        /\ bcast' = bcastAfter
        /\ UNCHANGED <<nodeId, initialized, buckets, now, closest, call, proc,
                       variant, started, tasks>>

---------------------------------------------------------------------------
(* The pubsub variant, src/unnamed/part_005: peers is a Set of peer ids,   *)
(* kept by the two listeners start() registers.                            *)

\* the peer:connect listener
PeerConnectListener ==
    \E id \in PeerIds :
        /\ variant = "pubsub" /\ started
        /\ MayAppear(id)
        /\ Len(conns) < MaxConns
        /\ NoOpenConn(id)
        /\ conns' = Append(conns, Conn(id, "open", FALSE))
        /\ peers' = MapSet(peers, Session(id, 0, 0))
        /\ stats' = [stats EXCEPT !.activeConnections = @ + 1]
        /\ ret' = Ret("event", NullId, FALSE)
        /\ bcast' = bcastAfter
        /\ UNCHANGED <<nodeId, initialized, routingTable, buckets, now, closest,
                       call, proc, variant, started, tasks>>

\* a connection has closed; for the last one of its peer the
\* peer:disconnect listener runs
PeerDisconnectListener ==
    \E c \in 1..Len(conns) :
        LET id == conns[c].peer
            cs == [conns EXCEPT ![c] = ClosedConn]
        IN  /\ variant = "pubsub"
            /\ conns[c].state \in {"open", "closing"}
            /\ conns' = cs
            /\ IF \A d \in 1..Len(cs) : cs[d].peer = id => cs[d].state # "open"
               THEN /\ peers' = MapDelete(peers, id)
                    /\ stats' = [stats EXCEPT !.activeConnections = @ - 1]
                    /\ bcast' = dropPeer(bcast, id)
               ELSE /\ bcast' = bcastAfter
                    /\ UNCHANGED <<peers, stats>>
            /\ ret' = Ret("event", NullId, FALSE)
            /\ UNCHANGED <<nodeId, initialized, routingTable, buckets, now,
                           closest, call, proc, variant, started, tasks>>

\* _disconnectPeer(peerId) up to the await of node.hangUp
DisconnectPeer ==
    \E id \in PeerIds :
        /\ variant = "pubsub" /\ started
        /\ MapHas(peers, id)
        /\ Cardinality(tasks \cup {Task("hangUp", id)}) <= MaxTasks
        /\ conns' = hangUpCalled(conns, id)
        /\ tasks' = tasks \cup {Task("hangUp", id)}
        /\ ret' = Ret("event", NullId, FALSE)
        /\ bcast' = bcastAfter
        /\ UNCHANGED <<nodeId, initialized, routingTable, buckets, now, closest,
                       call, proc, variant, started, peers, stats>>

\* node.hangUp settles: on success the peer id is deleted; a rejection is
\* caught and logged
HangUpSettles ==
    \E t \in tasks, ok \in BOOLEAN :
        /\ t.kind = "hangUp"
        /\ tasks' = tasks \ {t}
        /\ IF ok
           THEN /\ peers' = MapDelete(peers, t.id)
                /\ stats' = [stats EXCEPT !.activeConnections = @ - 1]
                /\ bcast' = dropPeer(bcast, t.id)
           ELSE /\ bcast' = bcastAfter
                /\ UNCHANGED <<peers, stats>>
        /\ ret' = Ret("_disconnectPeer", t.id, ~ok)
        /\ UNCHANGED <<nodeId, initialized, routingTable, buckets, now, closest,
                       call, proc, variant, started, conns>>

\* broadcast(message) up to the await of the first sendMessage
BroadcastStart ==
    LET first == nextPeer(peers, {})
    IN  /\ variant = "pubsub" /\ started
        /\ bcast.state # "running"
        /\ bcast' = IF first = NullId
                    THEN [NoBroadcast EXCEPT
                              !.state = "done",
                              !.result = broadcastReturn(variant, NoBroadcast)]
                    ELSE [NoBroadcast EXCEPT !.state = "running",
                                             !.current = first,
                                             !.visited = {first},
                                             !.stable = MapKeys(peers)]
        /\ ret' = Ret("event", NullId, FALSE)
        /\ UNCHANGED <<nodeId, initialized, routingTable, buckets, now, closest,
                       call, proc, variant, started, peers, conns, tasks, stats>>

\* the sendMessage awaited settles; the loop takes the next peer id of the
\* Set or ends
BroadcastSettle ==
    \E ok \in BOOLEAN :
        LET b == sendOutcome(bcast, bcast.current, ok)
            nxt == nextPeer(peers, b.visited)
        IN  /\ variant = "pubsub"
            /\ bcast.state = "running"
            /\ bcast' = IF b.state # "running"
                        THEN [b EXCEPT !.current = NullId, !.visited = {}]
                        ELSE IF nxt = NullId
                        THEN [b EXCEPT !.state = "done", !.current = NullId,
                                       !.visited = {},
                                       !.result = broadcastReturn(variant, b)]
                        ELSE [b EXCEPT !.current = nxt, !.visited = @ \cup {nxt}]
            /\ ret' = Ret("event", NullId, FALSE)
            /\ UNCHANGED <<nodeId, initialized, routingTable, buckets, now,
                           closest, call, proc, variant, started, peers, conns, tasks,
                           stats>>

NextNet ==
    \/ NetStart
    \/ HandlePeerDiscovery
    \/ HandlePeerConnect
    \/ DialResolves
    \/ DialEnds
    \/ ExchangeSettles
    \/ HandlePeerError
    \/ HandlePeerDisconnect
    \/ CloseSettles
    \/ BroadcastLibp2p
    \/ PerformDHTMaintenance
    \/ HandleConnection
    \/ ConnClose
    \/ BroadcastSwarm
    \/ CleanupInterval
    \/ PeerConnectListener
    \/ PeerDisconnectListener
    \/ DisconnectPeer
    \/ HangUpSettles
    \/ BroadcastStart
    \/ BroadcastSettle

SpecNet == InitNet /\ [][NextNet]_vars

---------------------------------------------------------------------------
(* start() of src/src/network/DHT.js step by step: one step for each       *)
(* awaited promise.  proc holds its locals: port, currentTry, success, the *)
(* ports handed to createLibp2p so far (tried) with how each call settled  *)
(* (outcomes) and the error start() rejected with.  occupied are the ports *)
(* another process listens on.                                             *)

\* the ports Math.floor(Math.random() * 55000) + 10000 can give; the
\* lowest NumRandomPorts of them stand for all
RandomPortBase == 10000
RandomPorts == RandomPortBase..(RandomPortBase + NumRandomPorts - 1)

\* parseInt(process.env.P2P_PORT) || config.p2p.port: the default, or a
\* port the operator has set
DefaultPort == 6001
ConfigPorts == {DefaultPort, RandomPortBase}
Ports == ConfigPorts \cup RandomPorts

maxTries == 3

\* the catch of one attempt retries whatever the number of attempts
mayRetryAlways(currentTry) == TRUE

\* the catch of one attempt: another port is drawn while attempts remain
mayRetry(currentTry) == currentTry < maxTries

\* the condition of the while loop
canTry(p) == ~p.success /\ p.currentTry < maxTries

InitStart ==
    /\ nodeId = NullId
    /\ initialized = FALSE
    /\ routingTable = <<>>
    /\ buckets = EmptyBuckets
    /\ now = 0
    /\ ret = Ret("new", NullId, FALSE)
    /\ closest = <<>>
    /\ call = NoCall
    /\ variant = "libp2p"
    /\ started = FALSE
    /\ peers = <<>>
    /\ conns = <<>>
    /\ tasks = {}
    /\ stats = NewStats
    /\ bcast = NoBroadcast
    /\ \E port \in ConfigPorts, occupied \in SUBSET Ports :
           proc = [op |-> "start", pc |-> "new", occupied |-> occupied,
                   port |-> port, currentTry |-> 0, success |-> FALSE,
                   tried |-> <<>>, outcomes |-> <<>>, error |-> "none"]

\* start() up to the port loop: _loadOrCreatePeerId, dht.initialize,
\* _getNetworkInfo, _findBootstrapNodes; a throw of one of them rejects
StartBegin ==
    \E ok \in BOOLEAN :
        /\ proc.op = "start" /\ proc.pc = "new"
        /\ IF ok
           THEN /\ nodeId' = SelfId
                /\ routingTable' = addNodeTable(routingTable, SelfId, LocalInfo, now)
                /\ buckets' = addNodeBuckets(buckets, SelfId, SelfId, LocalInfo, now)
                /\ initialized' = TRUE
                /\ proc' = [proc EXCEPT !.pc = "loop"]
                /\ ret' = Ret("event", NullId, FALSE)
           ELSE /\ proc' = [proc EXCEPT !.pc = "rejected", !.error = "other"]
                /\ ret' = Ret("start", NullId, TRUE)
                /\ UNCHANGED <<nodeId, initialized, routingTable, buckets>>
        /\ UNCHANGED <<now, closest, call, variant, started, peers, conns, tasks,
                       stats, bcast>>

\* one turn of the while loop: createLibp2p on the current port settles.
\* It rejects with EADDRINUSE on an occupied port and may reject with
\* another error on any port.
StartAttempt ==
    \E other \in BOOLEAN, random \in RandomPorts :
        LET outcome == IF other THEN "other"
                       ELSE IF proc.port \in proc.occupied THEN "inUse"
                       ELSE "ok"
            p == [proc EXCEPT !.currentTry = @ + 1,
                              !.tried = Append(@, proc.port),
                              !.outcomes = Append(@, outcome)]
        IN  /\ proc.op = "start" /\ proc.pc = "loop"
            /\ canTry(proc)
            /\ proc' = IF outcome = "other"
                       THEN [p EXCEPT !.pc = "rejected", !.error = "other"]
                       ELSE IF outcome = "ok"
                       THEN [p EXCEPT !.success = TRUE]
                       ELSE IF mayRetry(p.currentTry)
                       THEN [p EXCEPT !.port = random]
                       ELSE [p EXCEPT !.pc = "rejected", !.error = "portsBusy"]
            /\ ret' = Ret(IF proc'.pc = "rejected" THEN "start" ELSE "event",
                          NullId, proc'.pc = "rejected")
            /\ UNCHANGED <<nodeId, initialized, routingTable, buckets, now,
                           closest, call, variant, started, peers, conns, tasks,
                           stats, bcast>>

\* after the loop: node.start(), _setupEventHandlers, _startDiscovery,
\* _setupDHTMaintenance.  this.node is undefined when no attempt succeeded.
StartListen ==
    \E ok \in BOOLEAN :
        /\ proc.op = "start" /\ proc.pc = "loop"
        /\ ~canTry(proc)
        /\ proc' = IF ~proc.success
                   THEN [proc EXCEPT !.pc = "rejected", !.error = "TypeError"]
                   ELSE IF ok THEN [proc EXCEPT !.pc = "resolved"]
                   ELSE [proc EXCEPT !.pc = "rejected", !.error = "other"]
        /\ started' = (proc'.pc = "resolved")
        /\ ret' = Ret("start", NullId, proc'.pc = "rejected")
        /\ UNCHANGED <<nodeId, initialized, routingTable, buckets, now, closest,
                       call, variant, peers, conns, tasks, stats, bcast>>

NextStart ==
    \/ StartBegin
    \/ StartAttempt
    \/ StartListen

SpecStart == InitStart /\ [][NextStart]_vars

---------------------------------------------------------------------------
(* The outbound dials of src/src/network/DHT.js with the clock: the dial   *)
(* of _startDiscovery to a bootstrap node and the dials of                 *)
(* _handlePeerDiscovery, which race node.dial(id) against a timer.  The    *)
(* event handlers are registered before _startDiscovery runs.  A dial in   *)
(* tasks is a call of node.dial that has not settled; waiting says that    *)
(* the handler that made the call still awaits it.                         *)

dialTimeout == 5000

DialTask(n, id, at, src) ==
    [kind |-> "dial", id |-> id, n |-> n, at |-> at, src |-> src,
     waiting |-> TRUE]

\* the peers discovery reports; the first is the bootstrap node
DialPeers == {PeerIdOf(i) : i \in 1..NumDialPeers}

Dials(ts) == {t \in ts : t.kind = "dial"}

\* a number no pending call of node.dial has
FreeDial(ts) == CHOOSE n \in 1..MaxDials : \A d \in Dials(ts) : d.n # n

\* the timer of a dial of _handlePeerDiscovery has run out
TimerDue(d, t) == d.src = "discovery" /\ d.waiting /\ t - d.at >= dialTimeout

InitDial ==
    /\ nodeId = SelfId
    /\ initialized = TRUE
    /\ routingTable = addNodeTable(<<>>, SelfId, LocalInfo, 0)
    /\ buckets = addNodeBuckets(EmptyBuckets, SelfId, SelfId, LocalInfo, 0)
    /\ now = 0
    /\ ret = Ret("event", NullId, FALSE)
    /\ closest = <<>>
    /\ call = NoCall
    /\ variant = "libp2p"
    /\ started = FALSE
    /\ peers = <<>>
    /\ conns = <<>>
    /\ tasks = {}
    /\ stats = NewStats
    /\ bcast = NoBroadcast
    /\ proc = [op |-> "_startDiscovery", pc |-> "dial"]

\* _startDiscovery: await this.node.dial(addr.id), without a timer
BootstrapDial ==
    /\ proc.op = "_startDiscovery" /\ proc.pc = "dial"
    /\ Cardinality(Dials(tasks)) < MaxDials
    /\ Cardinality(tasks) < MaxTasks
    /\ tasks' = tasks \cup {DialTask(FreeDial(tasks), PeerIdOf(1), now, "bootstrap")}
    /\ proc' = [proc EXCEPT !.pc = "await"]
    /\ ret' = Ret("event", NullId, FALSE)
    /\ UNCHANGED <<nodeId, initialized, routingTable, buckets, now, closest,
                   call, variant, started, peers, conns, stats, bcast>>

\* _startDiscovery after its dial has settled, then the rest of start()
BootstrapDone ==
    /\ proc.op = "_startDiscovery" /\ proc.pc = "await"
    /\ \A d \in Dials(tasks) : d.src # "bootstrap"
    /\ proc' = [proc EXCEPT !.pc = "done"]
    /\ started' = TRUE
    /\ ret' = Ret("start", NullId, FALSE)
    /\ UNCHANGED <<nodeId, initialized, routingTable, buckets, now, closest,
                   call, variant, peers, conns, tasks, stats, bcast>>

\* _handlePeerDiscovery up to the await of connectWithTimeout
DiscoveryDial ==
    \E id \in DialPeers :
        /\ MayAppear(id) \/ id = PeerIdOf(1)
        /\ peers' = IF MapHas(peers, id)
                    THEN MapSet(peers, [MapGet(peers, id) EXCEPT !.lastSeen = now])
                    ELSE peers
        /\ IF ~MapHas(peers, id) /\ Len(peers) < MaxPeers
           THEN /\ Cardinality(Dials(tasks)) < MaxDials
                /\ Cardinality(tasks) < MaxTasks
                /\ tasks' = tasks \cup
                               {DialTask(FreeDial(tasks), id, now, "discovery")}
           ELSE UNCHANGED tasks
        /\ ret' = Ret("event", NullId, FALSE)
        /\ UNCHANGED <<nodeId, initialized, routingTable, buckets, now, closest,
                       call, proc, variant, started, conns, stats, bcast>>

\* the 5 s timer rejects connectWithTimeout: the handler catches and logs;
\* the call of node.dial is not cancelled
DialTimeout ==
    \E d \in Dials(tasks) :
        /\ TimerDue(d, now)
        /\ tasks' = (tasks \ {d}) \cup {[d EXCEPT !.waiting = FALSE]}
        /\ ret' = Ret("dial", d.id, TRUE)
        /\ UNCHANGED <<nodeId, initialized, routingTable, buckets, now, closest,
                       call, proc, variant, started, peers, conns, stats, bcast>>

\* node.dial(id) rejects, or resolves with a connection that is open
\* already: the handler that still awaits it catches and logs
DialFails ==
    \E d \in Dials(tasks) :
        /\ tasks' = tasks \ {d}
        /\ ret' = Ret("dial", d.id, d.waiting)
        /\ UNCHANGED <<nodeId, initialized, routingTable, buckets, now, closest,
                       call, proc, variant, started, peers, conns, stats, bcast>>

\* node.dial(id) resolves with a new connection: peer:connect is
\* dispatched, whether or not a handler still awaits the dial
DialConnects ==
    \E d \in Dials(tasks) :
        /\ NoOpenConn(d.id)
        /\ PeerConnected(d.id, tasks \ {d})
        /\ ret' = Ret("dial", d.id, FALSE)

\* the clock advances; a timer that is due fires first
TickDial ==
    /\ now < MaxTicks * TickMs
    /\ \A d \in Dials(tasks) : ~TimerDue(d, now)
    /\ now' = now + TickMs
    /\ ret' = Ret("tick", NullId, FALSE)
    /\ UNCHANGED <<nodeId, initialized, routingTable, buckets, closest, call,
                   netVars>>

NextDial ==
    \/ BootstrapDial
    \/ BootstrapDone
    \/ DiscoveryDial
    \/ DialTimeout
    \/ DialFails
    \/ DialConnects
    \/ ExchangeSettles
    \/ TickDial

SpecDial == InitDial /\ [][NextDial]_vars

---------------------------------------------------------------------------
(* findNode of src/src/network/DHT.js.  peers.get(id) is the session       *)
(* record {connection, status, lastSeen, messageCount}; the record has no  *)
(* newStream method, so the call of it throws a TypeError before anything  *)
(* is awaited, the catch inside the loop logs it, and findNode runs from   *)
(* its call to its return in one step.                                     *)

findNodeCount == 3

\* the ids findNode is called with
FindTargets == PeerIds \cup {IdTable[3]}

\* the peers of closestNodes the loop tries to query (tried); the request
\* is written to none of them (queried), so none replies
findNodeTried(closestNodes, ps) ==
    SelectSeq(closestNodes, LAMBDA node : MapHas(ps, node.nodeId))

InitFind ==
    /\ InitNet
    /\ variant = "libp2p"

FindNode ==
    \E targetId \in FindTargets :
        LET closestNodes == getClosestNodes(routingTable, targetId, findNodeCount)
            localNode == MapHas(routingTable, targetId)
        IN  /\ variant = "libp2p" /\ started
            /\ proc' = [op |-> "findNode", pc |-> "done", target |-> targetId,
                        local |-> localNode,
                        tried |-> IF localNode THEN <<>>
                                  ELSE findNodeTried(closestNodes, peers),
                        queried |-> <<>>,
                        replies |-> {},
                        result |-> IF localNode THEN "entry" ELSE "null",
                        rejected |-> FALSE, error |-> "none"]
            /\ ret' = Ret("findNode", targetId, FALSE)
            /\ bcast' = bcastAfter
            /\ UNCHANGED <<nodeId, initialized, routingTable, buckets, now,
                           closest, call, variant, started, peers, conns, tasks,
                           stats>>

NextFind ==
    \/ NetStart
    \/ HandlePeerConnect
    \/ ExchangeSettles
    \/ FindNode

SpecFind == InitFind /\ [][NextFind]_vars

---------------------------------------------------------------------------
(* Inbound frames: the 'data' listener of _setupMessageHandler with        *)
(* _handleMessage in src/src/network/DHT.js, and _handleMessage of         *)
(* src/src/network/NetworkManager.js.  A frame either fails JSON.parse or  *)
(* decodes to a message with a type tag; nodeId and ip are the fields the  *)
(* handlers read ("undef" for a field that is absent, NullId for no id).   *)
(* In the swarm variant nodeId stands for the data field of a broadcast.   *)

Frame(decodes, type, id, ip) ==
    [decodes |-> decodes, type |-> type, nodeId |-> id, ip |-> ip]

\* the cases of the switch in DHT.js and in NetworkManager.js
HandledTypes(v) ==
    IF v = "libp2p"
    THEN {"broadcast", "ping", "network_info", "dht_exchange", "dht_info",
          "find_node"}
    ELSE {"broadcast", "ping", "network-info"}

\* the type tags of the replies the handlers and the requests produce
ResponseTypes == {"pong", "dht_info_response", "find_node_response"}

MessageTypes ==
    HandledTypes("libp2p") \cup HandledTypes("swarm") \cup ResponseTypes
        \cup {"unknown"}

Frames ==
    {Frame(FALSE, "undef", NullId, "undef")} \cup
    {Frame(TRUE, type, id, ip) :
        type \in MessageTypes, id \in {NullId, IdTable[3]}, ip \in {"undef", "ip3"}}

\* a switch that takes a reply for a dht_exchange request
dispatchReplyAsExchange(v, type) ==
    IF type \in HandledTypes(v) THEN type
    ELSE IF type \in ResponseTypes THEN "dht_exchange"
    ELSE "default"

\* a switch whose default case is the network_info handler
dispatchDefaultAsInfo(v, type) ==
    IF type \in HandledTypes(v) THEN type ELSE "network_info"

\* the case of the switch a type tag selects
dispatch(v, type) == IF type \in HandledTypes(v) THEN type ELSE "default"

\* what the selected handler passes to dht.updateNode, NoInfo when it does
\* not call it
messageUpdate(branch, f) ==
    IF branch = "network_info" /\ f.nodeId # NullId /\ f.ip # "undef"
    THEN [ip |-> f.ip, isOnline |-> "undef"]
    ELSE IF branch = "dht_exchange" /\ f.nodeId # NullId
    THEN [ip |-> f.ip, isOnline |-> "true"]
    ELSE NoInfo

\* stats.messagesReceived
messagesReceived == IF proc.op = "_handleMessage" THEN proc.received ELSE 0

InitMsg ==
    /\ InitNet
    /\ variant \in {"libp2p", "swarm"}

\* DHT.js: a 'data' event on a connection _handlePeerConnect has set the
\* listener on.  Whatever the handlers throw, and a rejected send of a
\* reply, is caught and logged.
ReceiveLibp2p ==
    \E c \in 1..Len(conns), f \in Frames :
        LET branch == IF f.decodes THEN dispatch(variant, f.type) ELSE "catch"
            info == messageUpdate(branch, f)
        IN  /\ variant = "libp2p"
            /\ conns[c].state = "open"
            /\ messagesReceived < MaxMessages
            /\ IF info # NoInfo
               THEN /\ routingTable' = updateNodeTable(routingTable, f.nodeId, info, now)
                    /\ buckets' = updateNodeBuckets(routingTable, buckets, nodeId,
                                                    f.nodeId, info, now)
               ELSE UNCHANGED <<routingTable, buckets>>
            /\ proc' = [op |-> "_handleMessage", frame |-> f, branch |-> branch,
                        received |-> IF f.decodes THEN messagesReceived + 1
                                     ELSE messagesReceived]
            /\ ret' = Ret("_handleMessage", conns[c].peer, FALSE)
            /\ bcast' = bcastAfter
            /\ UNCHANGED <<nodeId, initialized, now, closest, call, variant,
                           started, peers, conns, tasks, stats>>

\* NetworkManager.js: a 'data' event on the connection of a session; the
\* whole handler is in a try/catch.  A broadcast without data throws a
\* TypeError, the other cases are empty.
ReceiveSwarm ==
    \E id \in MapKeys(peers), f \in Frames :
        LET branch == IF ~f.decodes THEN "catch"
                      ELSE IF f.type = "broadcast" /\ f.nodeId = NullId THEN "catch"
                      ELSE dispatch(variant, f.type)
        IN  /\ variant = "swarm"
            /\ messagesReceived < MaxMessages
            /\ proc' = [op |-> "_handleMessage", frame |-> f, branch |-> branch,
                        received |-> messagesReceived + 1]
            /\ ret' = Ret("_handleMessage", id, FALSE)
            /\ bcast' = bcastAfter
            /\ UNCHANGED <<nodeId, initialized, routingTable, buckets, now,
                           closest, call, variant, started, peers, conns, tasks,
                           stats>>

NextMsg ==
    \/ NetStart
    \/ HandlePeerConnect
    \/ ExchangeSettles
    \/ HandleConnection
    \/ ReceiveLibp2p
    \/ ReceiveSwarm

SpecMsg == InitMsg /\ [][NextMsg]_vars

---------------------------------------------------------------------------
(* Inbound frames that carry the id of the local node in their nodeId      *)

\* DHT.js: a 'data' event whose network_info or dht_exchange message names
\* the local node id
ReceiveNamingSelf ==
    \E c \in 1..Len(conns), type \in {"network_info", "dht_exchange"},
       ip \in {"undef", "ip3"} :
        LET f == Frame(TRUE, type, nodeId, ip)
            branch == dispatch(variant, f.type)
            info == messageUpdate(branch, f)
        IN  /\ variant = "libp2p"
            /\ conns[c].state = "open"
            /\ messagesReceived < MaxMessages
            /\ IF info # NoInfo
               THEN /\ routingTable' = updateNodeTable(routingTable, f.nodeId, info, now)
                    /\ buckets' = updateNodeBuckets(routingTable, buckets, nodeId,
                                                    f.nodeId, info, now)
               ELSE UNCHANGED <<routingTable, buckets>>
            /\ proc' = [op |-> "_handleMessage", frame |-> f, branch |-> branch,
                        received |-> messagesReceived + 1]
            /\ ret' = Ret("_handleMessage", conns[c].peer, FALSE)
            /\ bcast' = bcastAfter
            /\ UNCHANGED <<nodeId, initialized, now, closest, call, variant,
                           started, peers, conns, tasks, stats>>

SpecSelf ==
    Init /\ [][\/ NetStart \/ HandlePeerConnect \/ ExchangeSettles
               \/ ReceiveLibp2p \/ ReceiveNamingSelf]_vars

---------------------------------------------------------------------------
(* One cycle of _performDHTMaintenance of src/src/network/DHT.js, as the   *)
(* interval of _setupDHTMaintenance runs it.  The awaits of the cycle are  *)
(* on promises that are resolved already (_queryPeerForNodes returns [],   *)
(* _saveKnownPeers writes synchronously), so no event handler runs inside  *)
(* a cycle.  proc keeps what the cycle did and the known-peers.json file   *)
(* it left; the write of the file is taken to succeed.                     *)

\* known-peers.json: the ids of its records, <<>> while it does not exist
knownPeersCache ==
    IF proc.op = "_performDHTMaintenance" THEN proc.cache ELSE <<>>

\* const interval = this.config.p2p.discovery.interval || 60000
maintenanceInterval == 60000

\* stop() has completed before this cycle
cycleAfterStop ==
    \/ proc.op = "stop" /\ proc.pc = "done"
    \/ proc.op = "_performDHTMaintenance" /\ proc.afterStop

\* _saveKnownPeers: dht.getAllNodes() mapped to records, by id
saveKnownPeers(rt) == [i \in 1..Len(rt) |-> rt[i].nodeId]

\* node.getPeers(): the peers a connection is open to
getPeers(cs) ==
    {cs[c].peer : c \in {d \in 1..Len(cs) : cs[d].state = "open"}}

InitMaint ==
    /\ InitNet
    /\ variant = "libp2p"

\* _performDHTMaintenance: cleanupStaleNodes, the queries when the node has
\* a pubsub service, _saveKnownPeers; a throw of cleanupStaleNodes reaches
\* the catch at the end of the method
MaintenanceCycle ==
    \E pubsub \in BOOLEAN :
        LET r == cleanupStaleNodes(routingTable, buckets, nodeId, now)
        IN  /\ variant = "libp2p" /\ initialized
            /\ proc.op = "stop" => proc.pc = "done"
            /\ routingTable' = r.rt
            /\ buckets' = r.bk
            /\ proc' = [op |-> "_performDHTMaintenance",
                        threw |-> r.threw,
                        queried |-> IF ~r.threw /\ pubsub
                                    THEN getPeers(conns) ELSE {},
                        saved |-> ~r.threw,
                        cache |-> IF r.threw THEN knownPeersCache
                                  ELSE saveKnownPeers(r.rt),
                        afterStop |-> cycleAfterStop]
            /\ ret' = Ret("_performDHTMaintenance", NullId, FALSE)
            /\ bcast' = bcastAfter
            /\ UNCHANGED <<nodeId, initialized, now, closest, call, variant,
                           started, peers, conns, tasks, stats>>

\* one peer connects; the other routing entries come from addNode
NextMaint ==
    \/ NetStart
    \/ conns = <<>> /\ HandlePeerConnect
    \/ ExchangeSettles
    \/ AddNode
    \/ Tick
    \/ MaintenanceCycle

SpecMaint == InitMaint /\ [][NextMaint]_vars

---------------------------------------------------------------------------
(* stop() of src/src/network/DHT.js, one step for each session its loop    *)
(* disconnects, and stop() of src/src/network/NetworkManager.js, which is  *)
(* synchronous.  Neither start() keeps the handle setInterval returns:     *)
(* timers are the intervals that are still armed when stop() returns.      *)

\* the intervals start() arms: _setupDHTMaintenance in DHT.js,
\* _startPingInterval and _startCleanupInterval in NetworkManager.js
intervalsOf(v) ==
    IF v = "libp2p" THEN {"dhtMaintenance"} ELSE {"ping", "cleanup"}

\* the intervals stop() clears
clearedByStop(v) == {}

StopRecord(pc, visited, v) ==
    [op |-> "stop", pc |-> pc, visited |-> visited,
     timers |-> intervalsOf(v) \ clearedByStop(v), cycleRan |-> FALSE]

\* the loop of stop() in NetworkManager.js over peers.entries(), from entry
\* i of the entries it started with
RECURSIVE stopLoopSwarm(_, _, _, _, _)
stopLoopSwarm(entries, i, ps, cs, rt) ==
    IF i > Len(entries) THEN [ps |-> ps, cs |-> cs, rt |-> rt]
    ELSE LET r == disconnectPeerSwarm(ps, cs, rt, entries[i].nodeId)
         IN  stopLoopSwarm(entries, i + 1, r.ps, r.cs, r.rt)

InitStop ==
    /\ InitNet
    /\ variant \in {"libp2p", "swarm"}

\* start(), once
StartOnce ==
    /\ proc = NoProc
    /\ NetStart

\* DHT.js stop() is called: the loop over peers.entries() begins
StopBegin ==
    /\ variant = "libp2p" /\ started
    /\ proc.op # "stop"
    /\ proc' = StopRecord("loop", {}, variant)
    /\ ret' = Ret("event", NullId, FALSE)
    /\ bcast' = bcastAfter
    /\ UNCHANGED <<nodeId, initialized, routingTable, buckets, now, closest,
                   call, variant, started, peers, conns, tasks, stats>>

\* one turn of the loop: await this._disconnectPeer(peerId); a close()
\* that rejects is caught and logged, the session stays registered
StopDisconnect ==
    \E ok \in BOOLEAN :
        LET id == nextPeer(peers, proc.visited)
        IN  /\ variant = "libp2p"
            /\ proc.op = "stop" /\ proc.pc = "loop"
            /\ id # NullId
            /\ conns' = closeCalled(conns, MapGet(peers, id).conn)
            /\ IF ok
               THEN /\ peers' = MapDelete(peers, id)
                    /\ stats' = [stats EXCEPT !.activeConnections = @ - 1]
                    /\ IF MapHas(routingTable, id)
                       THEN /\ routingTable' =
                                  updateNodeTable(routingTable, id, OfflineInfo, now)
                            /\ buckets' = updateNodeBuckets(routingTable, buckets,
                                                            nodeId, id, OfflineInfo, now)
                       ELSE UNCHANGED <<routingTable, buckets>>
               ELSE UNCHANGED <<peers, stats, routingTable, buckets>>
            /\ proc' = [proc EXCEPT !.visited = @ \cup {id}]
            /\ ret' = Ret("_disconnectPeer", id, ~ok)
            /\ bcast' = bcastAfter
            /\ UNCHANGED <<nodeId, initialized, now, closest, call, variant,
                           started, tasks>>

\* after the loop: discovery.stop() and node.stop(); a rejection is logged
\* and thrown again.  node.stop() closes the connections.
StopFinish ==
    \E ok \in BOOLEAN :
        /\ variant = "libp2p"
        /\ proc.op = "stop" /\ proc.pc = "loop"
        /\ nextPeer(peers, proc.visited) = NullId
        /\ proc' = [proc EXCEPT !.pc = IF ok THEN "done" ELSE "rejected"]
        /\ started' = ~ok
        /\ conns' = IF ok THEN [c \in 1..Len(conns) |-> ClosedConn] ELSE conns
        /\ tasks' = IF ok THEN {} ELSE tasks
        /\ ret' = Ret("stop", NullId, ~ok)
        /\ bcast' = bcastAfter
        /\ UNCHANGED <<nodeId, initialized, routingTable, buckets, now, closest,
                       call, variant, peers, stats>>

\* NetworkManager.js stop(): _disconnectPeer for every session,
\* swarm.close(), started = false; a throw of swarm.close() is thrown again
StopSwarm ==
    \E ok \in BOOLEAN :
        LET r == stopLoopSwarm(peers, 1, peers, conns, routingTable)
        IN  /\ variant = "swarm" /\ started
            /\ peers' = r.ps
            /\ conns' = r.cs
            /\ routingTable' = r.rt
            /\ stats' = IF peers = <<>> THEN stats
                        ELSE [stats EXCEPT !.activeConnections = Len(r.ps)]
            /\ started' = ~ok
            /\ proc' = StopRecord(IF ok THEN "done" ELSE "rejected", MapKeys(peers),
                                  variant)
            /\ ret' = Ret("stop", NullId, ~ok)
            /\ bcast' = bcastAfter
            /\ UNCHANGED <<nodeId, initialized, buckets, now, closest, call,
                           variant, tasks>>

\* the ping interval of NetworkManager.js fires after stop() has returned:
\* broadcast("ping", ...)
PingAfterStop ==
    /\ variant = "swarm"
    /\ proc.op = "stop" /\ proc.pc = "done"
    /\ "ping" \in proc.timers
    /\ bcast' = broadcastAll(variant, peers, {})
    /\ proc' = [proc EXCEPT !.cycleRan = TRUE]
    /\ ret' = Ret("broadcast", NullId, bcast'.threw)
    /\ UNCHANGED <<nodeId, initialized, routingTable, buckets, now, closest,
                   call, variant, started, peers, conns, tasks, stats>>

NextStop ==
    \/ StartOnce
    \/ HandlePeerConnect
    \/ ExchangeSettles
    \/ HandleConnection
    \/ StopBegin
    \/ StopDisconnect
    \/ StopFinish
    \/ StopSwarm
    \/ PingAfterStop
    \/ MaintenanceCycle

SpecStop == InitStop /\ [][NextStop]_vars

---------------------------------------------------------------------------
(* start() with a bootstrap peer that may never answer: the maintenance    *)
(* timer is armed by _setupDHTMaintenance, which start() reaches after the *)
(* await of _startDiscovery                                                *)

\* a maintenance cycle of the timer start() has armed
StartedCycle ==
    /\ started
    /\ MaintenanceCycle

\* peers are discovered once _startDiscovery has issued its dial
NextStall ==
    \/ BootstrapDial
    \/ BootstrapDone
    \/ proc # [op |-> "_startDiscovery", pc |-> "dial"] /\ DiscoveryDial
    \/ DialFails
    \/ DialConnects
    \/ ExchangeSettles
    \/ StartedCycle

\* the node takes its own steps; whether a dial ever settles is up to the
\* peer that was dialled
SpecStall ==
    /\ InitDial
    /\ [][NextStall]_vars
    /\ WF_vars(BootstrapDial)
    /\ WF_vars(BootstrapDone)
    /\ WF_vars(StartedCycle)

---------------------------------------------------------------------------
(* The persisted identity: node-info.json and the PeerId start() uses *)

\* node-info.json as saveNodeInfo writes it: nodeId (0: absent) and peerId,
\* kept as the id alone (kind "string") or as {id, privKey, pubKey} (kind
\* "object"); exists = FALSE is no file, and the null of loadNodeInfo
NodeInfo(exists, id, kind, peer, key) ==
    [exists |-> exists, nodeId |-> id, kind |-> kind, id |-> peer, key |-> key]

\* NodeStorage.loadNodeInfo: null without a file, when JSON.parse throws
\* (kind "corrupt") or without a nodeId in the record
loadNodeInfo(file) ==
    IF file.exists /\ file.kind # "corrupt" /\ file.nodeId # 0 THEN file
    ELSE NodeInfo(FALSE, 0, "none", 0, 0)

\* NodeStorage.saveNodeInfo: the file after the call; ok = FALSE is a failed
\* write, which is caught and leaves the file as it was.  The stored peerId
\* is kept when none is passed, when a string equal to the id of a stored
\* complete peerId is passed, and when an object without keys is passed
\* over a stored complete peerId
saveNodeInfo(file, info, ok) ==
    IF ~ok THEN file
    ELSE LET existingInfo == IF file.kind = "corrupt"
                             THEN NodeInfo(FALSE, 0, "none", 0, 0) ELSE file
             keepsKeys == /\ info.kind = "string"
                          /\ existingInfo.kind = "object"
                          /\ existingInfo.key # 0
                          /\ existingInfo.id = info.id
             keepsComplete == /\ info.kind = "object" /\ info.key = 0
                              /\ existingInfo.kind = "object"
                              /\ existingInfo.key # 0
             keepsPeer == info.kind = "none" \/ keepsKeys \/ keepsComplete
         IN  NodeInfo(TRUE,
                      IF info.nodeId # 0 THEN info.nodeId
                      ELSE existingInfo.nodeId,
                      IF keepsPeer THEN existingInfo.kind ELSE info.kind,
                      IF keepsPeer THEN existingInfo.id ELSE info.id,
                      IF keepsPeer THEN existingInfo.key ELSE info.key)

\* _createNewPeerId: a key pair from the seed sha256(nodeId), or the next
\* random key pair (gen counts them) without a nodeId; DHT.js saves it as
\* an object, part_005 only returns it
createNewPeerId(v, file, id, gen, ok) ==
    LET key   == IF id = 0 THEN gen + 1 ELSE 100 + id
        saved == loadNodeInfo(file)
        info  == NodeInfo(TRUE, IF id # 0 THEN id ELSE saved.nodeId,
                          "object", key, key)
    IN  [used   |-> [id |-> key, key |-> key],
         file   |-> IF v = "libp2p" THEN saveNodeInfo(file, info, ok) ELSE file,
         gen    |-> IF id = 0 THEN gen + 1 ELSE gen,
         nodeId |-> id]

\* DHT.js _loadOrCreatePeerId: CASE 1 rebuilds the saved object when it
\* has its keys (key 0: privKey or pubKey is missing), CASE 3
\* gives a saved id a new key pair, anything else creates; fromJson is
\* whether createFromJSON returns the PeerId the saved id names
loadOrCreatePeerId(file, id, gen, fromJson, ok) ==
    LET saved == loadNodeInfo(file)
        file3 == saveNodeInfo(file, NodeInfo(TRUE, saved.nodeId, "object",
                                             saved.id, gen + 1), ok)
    IN  IF saved.kind = "object" /\ saved.key # 0 /\ fromJson
        THEN [used |-> [id |-> saved.id, key |-> saved.key],
              file |-> file, gen |-> gen, nodeId |-> id]
        ELSE IF saved.kind = "string" /\ fromJson
        THEN [used |-> [id |-> saved.id, key |-> gen + 1],
              file |-> file3, gen |-> gen + 1, nodeId |-> id]
        ELSE IF saved.kind = "string"
        THEN createNewPeerId("libp2p", file3, id, gen + 1, ok)
        ELSE createNewPeerId("libp2p", file, id, gen, ok)

\* part_005 start(), phase 1: a saved peerId is answered with a new random
\* PeerId whose toString() gives the saved id; otherwise one is created;
\* then the id alone is saved
loadOrCreatePubsub(file, id, gen, ok) ==
    LET nodeInfo == loadNodeInfo(file)
        made     == createNewPeerId("pubsub", file, id, gen, ok)
        r == IF nodeInfo.kind # "none"
             THEN [used   |-> [id |-> nodeInfo.id, key |-> gen + 1],
                   file   |-> file, gen |-> gen + 1,
                   nodeId |-> nodeInfo.nodeId]
             ELSE [made EXCEPT !.nodeId = IF id = 0 THEN 10 + made.used.id
                                          ELSE id]
    IN  [r EXCEPT !.file = saveNodeInfo(file, NodeInfo(TRUE, r.nodeId, "string",
                                                       r.used.id, 0), ok)]

InitIdentity ==
    /\ nodeId = NullId
    /\ initialized = FALSE
    /\ routingTable = <<>>
    /\ buckets = EmptyBuckets
    /\ now = 0
    /\ ret = Ret("new", NullId, FALSE)
    /\ closest = <<>>
    /\ call = NoCall
    /\ variant \in {"libp2p", "pubsub"}
    /\ started = FALSE
    /\ peers = <<>>
    /\ conns = <<>>
    /\ tasks = {}
    /\ stats = NewStats
    /\ bcast = NoBroadcast
    /\ \E configId \in {0, 1} :
           proc = [op |-> "identity", configId |-> configId, nodeId |-> 0,
                   file |-> NodeInfo(FALSE, 0, "none", 0, 0), gen |-> 0,
                   runs |-> 0, reset |-> FALSE,
                   used |-> [id |-> 0, key |-> 0],
                   first |-> [id |-> 0, key |-> 0]]

\* start() up to the PeerId it hands to createLibp2p; reset is
\* RESET_PEER_ID = 'true' in the environment
IdentityStart ==
    \E reset, fromJson, ok \in BOOLEAN :
        /\ proc.op = "identity" /\ ~started
        /\ proc.runs < MaxRuns
        /\ LET file == IF reset THEN NodeInfo(FALSE, 0, "none", 0, 0)
                       ELSE proc.file
               id   == IF variant = "libp2p" /\ proc.nodeId = 0
                       THEN proc.configId ELSE proc.nodeId
               r    == IF variant = "libp2p"
                       THEN loadOrCreatePeerId(file, id, proc.gen, fromJson, ok)
                       ELSE loadOrCreatePubsub(file, id, proc.gen, ok)
           IN  proc' = [proc EXCEPT !.nodeId = r.nodeId, !.file = r.file,
                                    !.gen = r.gen, !.used = r.used,
                                    !.runs = @ + 1,
                                    !.reset = @ \/ reset,
                                    !.first = IF proc.runs = 0 THEN r.used
                                              ELSE @]
        /\ started' = TRUE
        /\ ret' = Ret("start", NullId, FALSE)
        /\ UNCHANGED <<nodeId, initialized, routingTable, buckets, now, closest,
                       call, variant, peers, conns, tasks, stats, bcast>>

\* stop(); the next start() is on the same object, or on a new one in a
\* new process, whose nodeId is null again
IdentityStop ==
    \E restart \in BOOLEAN :
        /\ proc.op = "identity" /\ started
        /\ proc' = [proc EXCEPT !.nodeId = IF restart THEN 0 ELSE @]
        /\ started' = FALSE
        /\ ret' = Ret("stop", NullId, FALSE)
        /\ UNCHANGED <<nodeId, initialized, routingTable, buckets, now, closest,
                       call, variant, peers, conns, tasks, stats, bcast>>

SpecIdentity == InitIdentity /\ [][IdentityStart \/ IdentityStop]_vars

\* node-info.json is damaged while the node is down: it no longer parses,
\* it has lost its nodeId, or its peerId has lost the key pair
FileDamaged ==
    \E damage \in {"corrupt", "nodeId", "keys"} :
        /\ proc.op = "identity" /\ ~started
        /\ proc.file.exists /\ proc.file.kind # "corrupt"
        /\ damage = "keys" => proc.file.kind = "object" /\ proc.file.key # 0
        /\ damage = "nodeId" => proc.file.nodeId # 0
        /\ proc' = [proc EXCEPT !.file =
                      IF damage = "corrupt"
                      THEN NodeInfo(TRUE, 0, "corrupt", 0, 0)
                      ELSE IF damage = "nodeId"
                      THEN NodeInfo(TRUE, 0, @.kind, @.id, @.key)
                      ELSE NodeInfo(TRUE, @.nodeId, @.kind, @.id, 0)]
        /\ ret' = Ret("event", NullId, FALSE)
        /\ UNCHANGED <<nodeId, initialized, routingTable, buckets, now, closest,
                       call, variant, started, peers, conns, tasks, stats, bcast>>

SpecCorrupt ==
    InitIdentity /\ [][IdentityStart \/ IdentityStop \/ FileDamaged]_vars

---------------------------------------------------------------------------
(* NodeStorage on its own: saveNodeInfo then loadNodeInfo *)

\* part_003 saveNodeInfo: the merged record always holds the peerId as its
\* id string; ok = FALSE is a throw of the write, caught, and the file stays
saveNodeInfoString(file, info, ok) ==
    IF ~ok THEN file
    ELSE LET existing == IF file.kind = "corrupt"
                         THEN NodeInfo(FALSE, 0, "none", 0, 0) ELSE file
             kept     == info.kind = "none"
         IN  NodeInfo(TRUE,
                      IF info.nodeId # 0 THEN info.nodeId ELSE existing.nodeId,
                      IF kept /\ existing.kind = "none" THEN "none" ELSE "string",
                      IF kept THEN existing.id ELSE info.id,
                      0)

\* part_003 loadNodeInfo: null without a file or when JSON.parse throws,
\* otherwise the record as it is
loadNodeInfoAny(file) ==
    IF file.exists /\ file.kind # "corrupt" THEN file
    ELSE NodeInfo(FALSE, 0, "none", 0, 0)

\* the records a caller hands to saveNodeInfo: with or without nodeId, the
\* peerId absent, an id string, or an object with or without its key pair
StoreInfos ==
    {NodeInfo(TRUE, n, "none", 0, 0) : n \in {0, 1}}
        \cup {NodeInfo(TRUE, n, "string", i, 0) : n \in {0, 1}, i \in 1..NumStoreIds}
        \cup {NodeInfo(TRUE, n, "object", i, i) : n \in {0, 1}, i \in 1..NumStoreIds}
        \cup {NodeInfo(TRUE, n, "object", i, 0) : n \in {0, 1}, i \in 1..NumStoreIds}

InitStore ==
    /\ nodeId = NullId
    /\ initialized = FALSE
    /\ routingTable = <<>>
    /\ buckets = EmptyBuckets
    /\ now = 0
    /\ ret = Ret("new", NullId, FALSE)
    /\ closest = <<>>
    /\ call = NoCall
    /\ variant = "libp2p"
    /\ started = FALSE
    /\ peers = <<>>
    /\ conns = <<>>
    /\ tasks = {}
    /\ stats = NewStats
    /\ bcast = NoBroadcast
    /\ \E version \in {"utils", "part_003"} :
           proc = [op |-> "store", pc |-> "new", version |-> version,
                   file |-> NodeInfo(FALSE, 0, "none", 0, 0),
                   info |-> NodeInfo(FALSE, 0, "none", 0, 0),
                   saved |-> FALSE,
                   loaded |-> NodeInfo(FALSE, 0, "none", 0, 0)]

\* saveNodeInfo(info); saved is what it returns
StoreSave ==
    \E info \in StoreInfos, ok \in BOOLEAN :
        /\ proc.op = "store"
        /\ proc' = [proc EXCEPT
                      !.pc = "saved", !.info = info, !.saved = ok,
                      !.file = IF proc.version = "utils"
                               THEN saveNodeInfo(proc.file, info, ok)
                               ELSE saveNodeInfoString(proc.file, info, ok)]
        /\ ret' = Ret("saveNodeInfo", NullId, FALSE)
        /\ UNCHANGED <<nodeId, initialized, routingTable, buckets, now, closest,
                       call, variant, started, peers, conns, tasks, stats, bcast>>

\* loadNodeInfo() after a saveNodeInfo
StoreLoad ==
    /\ proc.op = "store" /\ proc.pc = "saved"
    /\ proc' = [proc EXCEPT
                  !.pc = "loaded",
                  !.loaded = IF proc.version = "utils"
                             THEN loadNodeInfo(proc.file)
                             ELSE loadNodeInfoAny(proc.file)]
    /\ ret' = Ret("loadNodeInfo", NullId, FALSE)
    /\ UNCHANGED <<nodeId, initialized, routingTable, buckets, now, closest,
                   call, variant, started, peers, conns, tasks, stats, bcast>>

SpecStore == InitStore /\ [][StoreSave \/ StoreLoad]_vars

---------------------------------------------------------------------------
(* createdAt of node-info.json.  A date is a number, 0 is no createdAt:    *)
(* 1..NumDates are the dates a caller can pass, new Date() gives a later   *)
(* date at every call.                                                     *)

\* createdAt of the record saveNodeInfo writes.  NodeStorage.js spreads the
\* caller's fields over the stored ones and adds a date when there is none;
\* part_003 takes the stored date first
createdAtSaved(version, stored, passed, date) ==
    IF version = "utils"
    THEN IF passed # 0 THEN passed
         ELSE IF stored # 0 THEN stored
         ELSE date
    ELSE IF stored # 0 THEN stored
         ELSE IF passed # 0 THEN passed
         ELSE date

InitCreated ==
    /\ nodeId = NullId
    /\ initialized = FALSE
    /\ routingTable = <<>>
    /\ buckets = EmptyBuckets
    /\ now = 0
    /\ ret = Ret("new", NullId, FALSE)
    /\ closest = <<>>
    /\ call = NoCall
    /\ variant = "libp2p"
    /\ started = FALSE
    /\ peers = <<>>
    /\ conns = <<>>
    /\ tasks = {}
    /\ stats = NewStats
    /\ bcast = NoBroadcast
    /\ \E version \in {"utils", "part_003"} :
           proc = [op |-> "createdAt", version |-> version, saves |-> 0,
                   createdAt |-> 0, passed |-> 0, saved |-> FALSE]

\* saveNodeInfo(nodeInfo) with nodeInfo.createdAt = passed (0: not passed);
\* ok = FALSE is a failed write, the file stays as it was
SaveCreatedAt ==
    \E passed \in 0..NumDates, ok \in BOOLEAN :
        /\ proc.op = "createdAt"
        /\ proc.saves < MaxSaves
        /\ proc' = [proc EXCEPT
                      !.saves = @ + 1, !.passed = passed, !.saved = ok,
                      !.createdAt =
                          IF ok THEN createdAtSaved(proc.version, proc.createdAt,
                                                    passed, NumDates + proc.saves + 1)
                          ELSE proc.createdAt]
        /\ ret' = Ret("saveNodeInfo", NullId, FALSE)
        /\ UNCHANGED <<nodeId, initialized, routingTable, buckets, now, closest,
                       call, variant, started, peers, conns, tasks, stats, bcast>>

SpecCreated == InitCreated /\ [][SaveCreatedAt]_vars

---------------------------------------------------------------------------
(* The routing table with the entries _handlePeerConnect adds: they are    *)
(* keyed by libp2p peer ids, which Buffer.from(id, 'hex') decodes up to    *)
(* the first character that is not a hex digit                             *)

\* addNode(id, peerInfo) for a libp2p peer id
AddPeerNode ==
    \E id \in PeerIds :
        /\ initialized
        /\ routingTable' = addNodeTable(routingTable, id, PeerInfo, now)
        /\ buckets' = addNodeBuckets(buckets, nodeId, id, PeerInfo, now)
        /\ ret' = Ret("addNode", id, FALSE)
        /\ closest' = <<>>
        /\ UNCHANGED <<nodeId, initialized, now, call, netVars>>

SpecTie ==
    Init /\ [][Initialize \/ AddPeerNode \/ Tick \/ GetClosestNodes]_vars

---------------------------------------------------------------------------
(* The routing table when the local id changes after initialize             *)

\* updateNodeId(newNodeId): only this.nodeId is assigned; the id is changed
\* once, away from the id initialize set
UpdateNodeId ==
    \E newNodeId \in Ids :
        /\ initialized
        /\ nodeId = SelfId
        /\ newNodeId # nodeId
        /\ nodeId' = newNodeId
        /\ ret' = Ret("updateNodeId", newNodeId, FALSE)
        /\ closest' = <<>>
        /\ UNCHANGED <<initialized, routingTable, buckets, now, call, netVars>>

SpecRebucket ==
    Init /\ [][\/ Initialize \/ AddNode \/ UpdateNode \/ RemoveNode
               \/ CleanupStaleNodes \/ Tick \/ UpdateNodeId]_vars

---------------------------------------------------------------------------
(* Sends to one peer over one session: every send opens a stream of its    *)
(* own (connection.newStream in DHT.js, node.dialProtocol in part_005) and *)
(* writes its message once the stream is there                             *)

InitOrder ==
    /\ nodeId = NullId
    /\ initialized = FALSE
    /\ routingTable = <<>>
    /\ buckets = EmptyBuckets
    /\ now = 0
    /\ ret = Ret("new", NullId, FALSE)
    /\ closest = <<>>
    /\ call = NoCall
    /\ variant \in {"libp2p", "pubsub"}
    /\ started = TRUE
    /\ peers = <<>>
    /\ conns = <<>>
    /\ tasks = {}
    /\ stats = NewStats
    /\ bcast = NoBroadcast
    /\ proc = [op |-> "send", sent |-> 0, opening |-> {}, received |-> <<>>]

\* a send to the peer is called (a reply of _handlePing, _handleFindNode,
\* a sendMessage): message sent + 1, up to the await of its stream
SendBegin ==
    /\ proc.op = "send"
    /\ proc.sent < MaxSends
    /\ proc' = [proc EXCEPT !.sent = @ + 1, !.opening = @ \cup {proc.sent + 1}]
    /\ ret' = Ret("send", NullId, FALSE)
    /\ UNCHANGED <<nodeId, initialized, routingTable, buckets, now, closest,
                   call, variant, started, peers, conns, tasks, stats, bcast>>

\* the stream of one pending send is open: stream.sink writes its message,
\* which the peer receives
StreamOpens ==
    \E m \in proc.opening :
        /\ proc.op = "send"
        /\ proc' = [proc EXCEPT !.opening = @ \ {m},
                                !.received = Append(@, m)]
        /\ ret' = Ret("send", NullId, FALSE)
        /\ UNCHANGED <<nodeId, initialized, routingTable, buckets, now, closest,
                       call, variant, started, peers, conns, tasks, stats, bcast>>

\* the stream of one pending send cannot be opened: the send throws, which
\* _handlePing catches and sendMessage passes on
StreamFails ==
    \E m \in proc.opening :
        /\ proc.op = "send"
        /\ proc' = [proc EXCEPT !.opening = @ \ {m}]
        /\ ret' = Ret("send", NullId, variant = "pubsub")
        /\ UNCHANGED <<nodeId, initialized, routingTable, buckets, now, closest,
                       call, variant, started, peers, conns, tasks, stats, bcast>>

SpecOrder == InitOrder /\ [][SendBegin \/ StreamOpens \/ StreamFails]_vars

---------------------------------------------------------------------------
(* The bootstrap resolver: _findBootstrapNodes and _loadKnownPeers *)

\* 7 * 24 * 60 * 60 * 1000
sevenDays == 604800000
\* bootstrapNodes.length > 4, splice(4)
maxBootstrap == 4
\* hosts, ports and ids are numbered; host i with port i and id i is static
\* seed i for i <= 2; id QmBootstrap is the fallback id 'QmBootstrap'
QmBootstrap == 9

\* a multiaddr string by its parts: "ip4p2p" is /ip4/h/tcp/p/p2p/id,
\* "dns4p2p" is /dns4/h/tcp/p/p2p/id, "ip4" is /ip4/h/tcp/p (id 0); two
\* strings are equal when all parts are
Addr(fmt, host, port, id) ==
    [fmt |-> fmt, host |-> host, port |-> port, id |-> id]

\* a candidate: its address and the source that contributed it
Candidate(addr, from) == [addr |-> addr, from |-> from]

\* the three formats pushed for each of the two staticBootstrapNodes
staticBootstrapAddrs ==
    <<Candidate(Addr("ip4p2p", 1, 1, 1), "seed"),
      Candidate(Addr("dns4p2p", 1, 1, 1), "seed"),
      Candidate(Addr("ip4", 1, 1, 0), "seed"),
      Candidate(Addr("ip4p2p", 2, 2, 2), "seed"),
      Candidate(Addr("dns4p2p", 2, 2, 2), "seed"),
      Candidate(Addr("ip4", 2, 2, 0), "seed")>>

\* config.p2p.bootstrapNodes entries: multiaddr strings and {host, port, id}
\* objects (id 0: no id)
ConfigNodes ==
    {[kind |-> "string", addr |-> Addr("ip4p2p", 1, 1, 1)],
     [kind |-> "string", addr |-> Addr("dns4p2p", 3, 3, 3)],
     [kind |-> "object", addr |-> Addr("ip4p2p", 1, 1, 0)],
     [kind |-> "object", addr |-> Addr("ip4p2p", 3, 3, 3)],
     [kind |-> "object", addr |-> Addr("ip4p2p", 3, 3, 0)]}

\* known-peers.json entries {id, host, port, lastSeen}
CacheEntries ==
    {[id |-> i, host |-> i, port |-> i, lastSeen |-> t] :
        i \in 4..(3 + NumCacheIds), t \in {0, 1}}

SeqsUpTo(S, n) == UNION {[1..m -> S] : m \in 0..n}

includes(list, addr) == \E i \in 1..Len(list) : list[i].addr = addr

\* the loop over config.p2p.bootstrapNodes from entry i
RECURSIVE addConfigNodes(_, _, _)
addConfigNodes(list, nodes, i) ==
    IF i > Len(nodes) THEN list
    ELSE LET node     == nodes[i]
             nodeAddr == IF node.kind = "string" THEN node.addr
                         ELSE [node.addr EXCEPT
                                 !.id = IF @ = 0 THEN QmBootstrap ELSE @]
         IN  addConfigNodes(IF includes(list, nodeAddr) THEN list
                            ELSE Append(list, Candidate(nodeAddr, "config")),
                            nodes, i + 1)

loadKnownPeersAll(cache, clock) == cache

\* _loadKnownPeers: peerData.filter(peer => peer.lastSeen > sevenDaysAgo)
loadKnownPeers(cache, clock) ==
    SelectSeq(cache, LAMBDA peer : peer.lastSeen > clock - sevenDays)

\* the cache entries as candidates
RECURSIVE addKnownPeers(_, _, _)
addKnownPeers(list, knownPeers, i) ==
    IF i > Len(knownPeers) THEN list
    ELSE LET peer == knownPeers[i]
         IN  addKnownPeers(
                 Append(list, Candidate(Addr("ip4p2p", peer.host, peer.port,
                                             peer.id), "cache")),
                 knownPeers, i + 1)

capListNever(list) == list

\* if (bootstrapNodes.length > 4) bootstrapNodes.splice(4)
capList(list) ==
    IF Len(list) > maxBootstrap THEN SubSeq(list, 1, maxBootstrap) ELSE list

\* _findBootstrapNodes: built is the list before the cut, result what is
\* returned; without config.p2p the read of its bootstrapNodes throws and
\* the catch returns the two static addresses
findBootstrapNodes(config, cache, clock) ==
    LET withConfig == IF config.hasList
                      THEN addConfigNodes(staticBootstrapAddrs, config.nodes, 1)
                      ELSE staticBootstrapAddrs
        built      == IF Len(withConfig) = 0
                      THEN addKnownPeers(withConfig,
                                         loadKnownPeers(cache, clock), 1)
                      ELSE withConfig
    IN  IF ~config.hasP2p
        THEN [built  |-> staticBootstrapAddrs,
              result |-> <<staticBootstrapAddrs[1], staticBootstrapAddrs[4]>>]
        ELSE [built |-> built, result |-> capList(built)]

InitBoot ==
    /\ nodeId = NullId
    /\ initialized = FALSE
    /\ routingTable = <<>>
    /\ buckets = EmptyBuckets
    /\ now = 0
    /\ ret = Ret("new", NullId, FALSE)
    /\ closest = <<>>
    /\ call = NoCall
    /\ variant = "libp2p"
    /\ started = FALSE
    /\ peers = <<>>
    /\ conns = <<>>
    /\ tasks = {}
    /\ stats = NewStats
    /\ bcast = NoBroadcast
    /\ \E hasP2p, hasList \in BOOLEAN,
          nodes \in SeqsUpTo(ConfigNodes, MaxConfigNodes),
          cache \in SeqsUpTo(CacheEntries, MaxCache),
          clock \in {sevenDays, sevenDays + 1} :
           /\ ~hasP2p => ~hasList
           /\ ~hasList => nodes = <<>>
           /\ proc = [op |-> "resolve", resolved |-> FALSE, loaded |-> FALSE,
                      config |-> [hasP2p |-> hasP2p, hasList |-> hasList,
                                  nodes |-> nodes],
                      cache |-> cache, clock |-> clock,
                      built |-> <<>>, result |-> <<>>, knownPeers |-> <<>>]

\* _findBootstrapNodes()
FindBootstrapNodes ==
    /\ proc.op = "resolve" /\ ~proc.resolved
    /\ LET r == findBootstrapNodes(proc.config, proc.cache, proc.clock)
       IN  proc' = [proc EXCEPT !.resolved = TRUE, !.built = r.built,
                                !.result = r.result]
    /\ ret' = Ret("_findBootstrapNodes", NullId, FALSE)
    /\ UNCHANGED <<nodeId, initialized, routingTable, buckets, now, closest,
                   call, variant, started, peers, conns, tasks, stats, bcast>>

\* _loadKnownPeers()
LoadKnownPeers ==
    /\ proc.op = "resolve" /\ ~proc.loaded
    /\ proc' = [proc EXCEPT !.loaded = TRUE,
                            !.knownPeers = loadKnownPeers(proc.cache, proc.clock)]
    /\ ret' = Ret("_loadKnownPeers", NullId, FALSE)
    /\ UNCHANGED <<nodeId, initialized, routingTable, buckets, now, closest,
                   call, variant, started, peers, conns, tasks, stats, bcast>>

SpecBoot == InitBoot /\ [][FindBootstrapNodes \/ LoadKnownPeers]_vars

---------------------------------------------------------------------------
(* Claims on the routing table *)

CountOf(rt, id) == Cardinality({i \in 1..Len(rt) : rt[i].nodeId = id})

\* C1: after any sequence of addNode, updateNode, removeNode and
\* cleanupStaleNodes calls the routing table holds at most one entry per
\* peerId, and an addNode for a peerId leaves exactly one entry for it,
\* refreshed (lastSeen is the time of the call), also when the peerId was
\* already present.
C1_OneEntryPerPeerId ==
    /\ \A id \in AllIds : CountOf(routingTable, id) <= 1
    /\ ret.op = "addNode" =>
          /\ CountOf(routingTable, ret.id) = 1
          /\ MapGet(routingTable, ret.id).lastSeen = now

\* an addNode has acted on a peerId that was already in the table (it is
\* not the last entry, where a new key goes) and has refreshed it
C1_Witness ==
    /\ ret.op = "addNode"
    /\ Len(routingTable) >= 2
    /\ routingTable[1].nodeId = ret.id
    /\ routingTable[1].lastSeen = now
    /\ now > 0

\* C5: cleanupStaleNodes, run at time now, removes from the routing table
\* exactly the entries with now - lastSeen > TTL and no others.
C5_CleanupExact ==
    [][ret'.op = "cleanupStaleNodes" =>
          routingTable' = SelectSeq(routingTable, LAMBDA e : ~IsStale(e, now))]_vars

\* C2: no bucket holds more than k = 20 entries.
C2_BucketCapacity ==
    \A b \in DOMAIN buckets : Len(buckets[b]) <= k

---------------------------------------------------------------------------
(* The XOR distance the specification speaks of: the bytewise XOR of two   *)
(* ids over their common width, read as a magnitude (big-endian).          *)

XorBytes(a, b) ==
    LET id1 == HexDecode(a)
        id2 == HexDecode(b)
    IN  [i \in 1..Min(Len(id1), Len(id2)) |-> XorByte(id1[i], id2[i])]

RECURSIVE StripZeros(_)
StripZeros(x) == IF x # <<>> /\ Head(x) = 0 THEN StripZeros(Tail(x)) ELSE x

RECURSIVE LexLeq(_, _)
LexLeq(x, y) ==
    IF x = <<>> THEN TRUE
    ELSE IF Head(x) # Head(y) THEN Head(x) < Head(y)
    ELSE LexLeq(Tail(x), Tail(y))

MagnitudeLeq(x, y) ==
    LET sx == StripZeros(x)
        sy == StripZeros(y)
    IN  IF Len(sx) # Len(sy) THEN Len(sx) < Len(sy) ELSE LexLeq(sx, sy)

\* C3: getClosestNodes(targetId, count) returns at most count entries, in
\* non-decreasing order of the XOR distance between their id and targetId.
C3_ClosestSorted ==
    ret.op = "getClosestNodes" =>
        /\ Len(closest) <= ret.id[2]
        /\ \A i \in 1..Len(closest), j \in 1..Len(closest) :
              i < j => MagnitudeLeq(XorBytes(closest[i].nodeId, ret.id[1]),
                                    XorBytes(closest[j].nodeId, ret.id[1]))

\* C4: the XOR distance is symmetric and the distance of an id to itself
\* is 0.
C4_DistanceSymmetric ==
    call.fn = "_calculateDistance" =>
        /\ call.out[1] = call.out[2]
        /\ call.out[3] = 0

\* the distance of two different ids of different lengths has been
\* computed and is not 0
C4_Witness ==
    /\ call.fn = "_calculateDistance"
    /\ Len(HexDecode(call.a)) # Len(HexDecode(call.b))
    /\ call.out[1] # 0

---------------------------------------------------------------------------
(* Claims on the session registry *)

\* C6: when the session registry already holds the configured maximum
\* number of sessions, an inbound connection is rejected: that connection
\* is closed, no session is registered for it, and the registry is left as
\* it was.
C6_InboundRejectedAtMax ==
    [][(/\ Len(peers) >= MaxPeers
        /\ ret'.op \in {"_handleConnection", "_handlePeerConnect"}
        /\ Len(conns') = Len(conns) + 1)
          => (/\ peers' = peers
              /\ conns'[Len(conns')].state # "open")]_vars

\* C7: in every reachable state of the variants that read maxPeers
\* (src/src/network/DHT.js, src/src/network/NetworkManager.js) the number
\* of sessions in the registry is at most the configured maxPeers.
C7_SessionsWithinMax ==
    variant \in {"libp2p", "swarm"} => Len(peers) <= MaxPeers

\* C8: when _disconnectPeer(peerId) has run to its end and peerId had a
\* routing entry, that routing entry is there and marked offline.
C8_ClosedMarkedOffline ==
    [][(ret'.op = "_disconnectPeer" /\ MapHas(routingTable, ret'.id))
          => (/\ MapHas(routingTable', ret'.id)
              /\ MapGet(routingTable', ret'.id).isOnline = "false")]_vars

\* C9: only the maintenance sweep removes an entry from the routing table:
\* no other step shrinks the set of peer ids in it.
C9_OnlyMaintenanceRemoves ==
    [][\/ MapKeys(routingTable) \subseteq MapKeys(routingTable')
       \/ PerformDHTMaintenance
       \/ CleanupInterval]_vars

Range(f) == {f[i] : i \in DOMAIN f}

\* C10: a broadcast in which a send failed has not thrown, and has
\* attempted a send to every peer that was in the registry from its start
\* to its end.
C10_BroadcastSurvivesSendFailure ==
    (bcast.state = "done" /\ bcast.failed # {})
        => (/\ ~bcast.threw
            /\ bcast.stable \subseteq Range(bcast.attempted))

\* a broadcast has ended in which the send to one peer failed and a send
\* to a later peer was made and succeeded
C10_Witness ==
    /\ bcast.state = "done"
    /\ ~bcast.threw
    /\ \E i \in 1..Len(bcast.attempted), j \in 1..Len(bcast.attempted) :
           /\ i < j
           /\ bcast.attempted[i] \in bcast.failed
           /\ bcast.attempted[j] \notin bcast.failed
           /\ bcast.attempted[j] \in bcast.stable


\* C11: a broadcast that has returned has returned a number, the number of
\* peers its message was sent to without a failure (0 when every send
\* failed or no peer is connected)
C11_BroadcastReturnsCount ==
    (bcast.state = "done" /\ ~bcast.threw)
        => bcast.result = JsValue("number", bcast.successCount)


FailedTries(p) == {i \in 1..Len(p.tried) : p.outcomes[i] = "inUse"}

\* what holds of start() whatever port a retry draws
StartBounded(p) ==
    /\ Len(p.tried) <= maxTries
    /\ p.currentTry = Len(p.tried)
    /\ \A i \in 2..Len(p.tried) :
           /\ (i - 1) \in FailedTries(p)
           /\ p.tried[i] \in RandomPorts
    /\ (p.error = "portsBusy")
           <=> (Len(p.tried) = maxTries /\ FailedTries(p) = 1..maxTries)
    /\ (p.error = "portsBusy") => (p.pc = "rejected")
    /\ (FailedTries(p) = 1..maxTries) => (p.pc = "rejected")
    /\ (p.pc = "resolved")
           => (/\ started /\ p.success
               /\ p.tried # <<>>
               /\ p.tried[Len(p.tried)] = p.port
               /\ p.port \notin p.occupied)
    /\ started => (p.pc = "resolved")

C13_DialBoundedAndHarmless ==
    /\ [](\A d \in Dials(tasks) :
             (d.waiting \/ d.src = "bootstrap") => now - d.at <= dialTimeout)
    /\ [][\A d \in Dials(tasks) :
             (d \notin tasks' /\ (~d.waiting \/ ret'.threw))
                 => MapKeys(peers') = MapKeys(peers)]_vars

\* C14: at most one call of node.dial to a given peer id is pending
C14_OneDialPerPeer ==
    \A d, e \in Dials(tasks) : d.id = e.id => d = e


\* C15: a findNode for a target without a local routing entry has
\* completed either by resolving with what the queried peers replied or,
\* when no peer replied, by failing with a request-timeout error
C15_FindNodeResolvesOrTimesOut ==
    (proc.op = "findNode" /\ ~proc.local)
        => /\ proc.pc = "done"
           /\ \/ proc.replies # {} /\ ~proc.rejected
              \/ proc.replies = {} /\ proc.rejected
                    /\ proc.error = "RequestTimeoutError"


C17_BadFrameDropped ==
    [][(/\ ret'.op = "_handleMessage"
        /\ \/ ~proc'.frame.decodes
           \/ proc'.frame.type \notin HandledTypes(variant))
          => (/\ ~ret'.threw
              /\ UNCHANGED <<routingTable, buckets, peers>>)]_vars

C17_Witness ==
    /\ ret.op = "_handleMessage" /\ ~ret.threw
    /\ proc.op = "_handleMessage"
    /\ proc.received = MaxMessages
    /\ proc.frame.type = "unknown"
    /\ proc.frame.nodeId # NullId /\ proc.frame.ip # "undef"
    /\ MapHas(peers, ret.id)


\* C19: every maintenance cycle ends with known-peers.json rewritten from
\* the routing table as the cycle's cleanup left it
C19_CycleRewritesCache ==
    [][(ret'.op = "_performDHTMaintenance")
          => (/\ proc'.saved
              /\ proc'.cache = saveKnownPeers(routingTable'))]_vars


\* stop() has resolved; a maintenance cycle may have run since
StopCompleted ==
    \/ proc.op = "stop" /\ proc.pc = "done"
    \/ proc.op = "_performDHTMaintenance" /\ proc.afterStop

\* C18: once stop() has completed the session registry is empty, no
\* interval of start() is armed and no maintenance cycle has run since
C18_StopClosesAllAndCancelsTimer ==
    StopCompleted
        => (/\ peers = <<>>
            /\ proc.op = "stop"
            /\ proc.timers = {}
            /\ ~proc.cycleRan)


\* C20: across any number of stop/start cycles without an explicit reset,
\* the identity a start() uses is the one of the first run: the same id and
\* the same key pair.
C20_IdentityKeptAcrossRestarts ==
    (proc.op = "identity" /\ started /\ ~proc.reset)
        => proc.used = proc.first


\* C21: after saveNodeInfo(identity) has succeeded, loadNodeInfo() returns
\* an identity with the id, the public key and the private key that were
\* saved.
C21_IdentityRoundTrip ==
    (/\ proc.op = "store" /\ proc.pc = "loaded"
     /\ proc.saved /\ proc.info.kind = "object" /\ proc.info.key # 0)
        => (/\ proc.loaded.kind = "object"
            /\ proc.loaded.id = proc.info.id
            /\ proc.loaded.key = proc.info.key)


\* the persisted record does not parse or lacks a required field
RecordCorrupt(file) ==
    /\ file.exists
    /\ \/ file.kind = "corrupt"
       \/ file.nodeId = 0
       \/ file.kind = "object" /\ file.key = 0

\* C22: when the persisted identity record is unparseable or lacks required
\* fields, the start that loads it reports an error to its caller and uses
\* no fabricated id or key pair.
C22_CorruptIdentityReported ==
    [][(/\ proc.op = "identity" /\ ~started /\ started'
        /\ ~proc'.reset
        /\ RecordCorrupt(proc.file))
          => (/\ ret'.threw /\ proc'.used = proc.used)]_vars


\* C23: for every combination of static seeds, configured bootstrap peers
\* and cache contents, the list _findBootstrapNodes returns has at most 4
\* addresses.
C23_AtMostFourCandidates ==
    (proc.op = "resolve" /\ proc.resolved) => Len(proc.result) <= 4

\* the resolver has cut a list with configured peers in it down to 4
C23_Witness ==
    /\ proc.op = "resolve" /\ proc.resolved
    /\ Len(proc.built) > 4
    /\ \E i \in 1..Len(proc.built) : proc.built[i].from = "config"
    /\ Len(proc.result) = 4

SameHostPort(a, b) == a.host = b.host /\ a.port = b.port

\* C24: configured bootstrap peers are deduplicated by host:port when the
\* candidate list is built: no two candidates from the configuration name
\* the same host:port, and none names the host:port of a listed seed.
C24_ConfigDedupByHostPort ==
    (proc.op = "resolve" /\ proc.resolved) =>
        \A i, j \in 1..Len(proc.built) :
            (/\ i # j
             /\ proc.built[i].from = "config"
             /\ SameHostPort(proc.built[i].addr, proc.built[j].addr))
                => proc.built[j].from = "cache"

Fresh(peer) == peer.lastSeen > proc.clock - sevenDays

\* C25: an address from the KnownPeersCache is in the resolver's result only
\* if the list of seeds plus configured peers is empty and the entry's
\* lastSeen lies within the last 7 days; _loadKnownPeers drops the older
\* entries.
C25_CacheOnlyWhenEmptyAndFresh ==
    /\ (proc.op = "resolve" /\ proc.resolved) =>
          \A i \in 1..Len(proc.result) :
              proc.result[i].from = "cache" =>
                  /\ \A j \in 1..Len(proc.built) : proc.built[j].from = "cache"
                  /\ \E e \in 1..Len(proc.cache) :
                        /\ Fresh(proc.cache[e])
                        /\ proc.result[i].addr.id = proc.cache[e].id
    /\ (proc.op = "resolve" /\ proc.loaded) =>
          proc.knownPeers = SelectSeq(proc.cache, Fresh)

\* a cache with an entry of the last 7 days and an older one has been
\* loaded and resolved: the older one is dropped, the result has neither
C25_Witness ==
    /\ proc.op = "resolve" /\ proc.resolved /\ proc.loaded
    /\ \E e, f \in 1..Len(proc.cache) :
          Fresh(proc.cache[e]) /\ ~Fresh(proc.cache[f])
    /\ Len(proc.knownPeers) = 1
    /\ \A i \in 1..Len(proc.result) : proc.result[i].from # "cache"


\* C26: when a connected session has been silent for the maintenance
\* interval, a maintenance cycle leaves its routing entry in the routing
\* table, marked offline, and getClosestNodes still returns it.
C26_SilentPeerOfflineNotDeleted ==
    (ret.op = "_performDHTMaintenance") =>
        \A i \in 1..Len(peers) :
            now - peers[i].lastSeen >= maintenanceInterval =>
                /\ MapHas(routingTable, peers[i].nodeId)
                /\ MapGet(routingTable, peers[i].nodeId).isOnline = "false"
                /\ \E j \in 1..Len(routingTable) :
                      getClosestNodes(routingTable, peers[i].nodeId,
                                      Len(routingTable))[j].nodeId
                          = peers[i].nodeId


\* C27: a fresh node (empty routing table and cache) with one reachable
\* bootstrap address has connected to it and completed the peer-info
\* exchange: the routing table holds exactly one entry, the bootstrap
\* peer's, marked online.
C27_FreshNodeOneOnlineEntry ==
    (/\ proc.op = "_startDiscovery" /\ proc.pc = "done"
     /\ Len(conns) = 1 /\ Len(peers) = 1 /\ tasks = {}
     /\ peers[1].nodeId = PeerIdOf(1))
        => (/\ Len(routingTable) = 1
            /\ routingTable[1].nodeId = PeerIdOf(1)
            /\ routingTable[1].isOnline = "true")


\* C28: one unresponsive peer cannot stall the node: whatever a dialled
\* peer does or fails to do, a maintenance cycle eventually starts and
\* completes.
C28_MaintenanceNotStalled ==
    <>(ret.op = "_performDHTMaintenance")


\* C29: the messages sent to one peer over one session are received in the
\* order in which they were sent, for every interleaving of the sends.
C29_FifoPerSession ==
    proc.op = "send" =>
        \A i, j \in 1..Len(proc.received) :
            i < j => proc.received[i] < proc.received[j]


\* the entries a and b are at the same distance from the target
SameDistance(target, a, b) ==
    _calculateDistance(target, a.nodeId) = _calculateDistance(target, b.nodeId)

\* C30: when two entries are at equal XOR distance from targetId,
\* getClosestNodes(targetId, count) returns the one with the larger lastSeen
\* first, and that one is kept when count cuts the tie.
C30_TieBreakByLastSeen ==
    (ret.op = "getClosestNodes") =>
        /\ \A i, j \in 1..Len(closest) :
              (i < j /\ SameDistance(ret.id[1], closest[i], closest[j]))
                  => closest[i].lastSeen >= closest[j].lastSeen
        /\ \A i \in 1..Len(closest), e \in 1..Len(routingTable) :
              (/\ \A j \in 1..Len(closest) :
                     closest[j].nodeId # routingTable[e].nodeId
               /\ SameDistance(ret.id[1], closest[i], routingTable[e]))
                  => closest[i].lastSeen >= routingTable[e].lastSeen


\* floor(log2(x)) of the magnitude x written as big-endian bytes, clamped
\* to 0..159 (0 for the magnitude 0)
ClampedLog2(x) ==
    LET s == StripZeros(x)
    IN  IF s = <<>> THEN 0
        ELSE Min(Max(0, (Len(s) - 1) * 8 + FloorLog2(Head(s))), 159)

\* C31: for every pair of ids, equal ids and wide ids included,
\* _getBucketIndex returns an integer in 0..159 that is the floor of log2 of
\* the XOR distance of the two ids, clamped to that range.
C31_BucketIndexInRange ==
    call.fn = "_getBucketIndex" =>
        /\ call.out[1] \in 0..159
        /\ call.out[1] = ClampedLog2(XorBytes(call.a, call.b))


\* a non-negative 32-bit number as its four big-endian bytes
BytesOf(n) ==
    <<n \div 16777216, (n \div 65536) % 256, (n \div 256) % 256, n % 256>>

\* C32: _calculateDistance returns the non-negative magnitude of the
\* bytewise XOR over the whole id width: for ids of equal length it is 0
\* only when the ids are equal, and every byte where the ids differ
\* contributes (no byte is lost to 32-bit wrap-around).
C32_DistanceIsXorMagnitude ==
    call.fn = "_calculateDistance" =>
        /\ call.out[1] >= 0
        /\ (Len(call.a) = Len(call.b) /\ call.out[1] = 0) => call.a = call.b
        /\ StripZeros(BytesOf(call.out[1])) = StripZeros(XorBytes(call.a, call.b))


\* C33: after any sequence of addNode, updateNode, removeNode,
\* cleanupStaleNodes and updateNodeId every id of the routing table is in
\* exactly one bucket, the one for its distance from the current local id,
\* and no bucket holds an id the routing table does not hold.
C33_TableAndBucketsConsistent ==
    initialized =>
        /\ \A i \in 1..Len(routingTable) :
              LET id == routingTable[i].nodeId
                  b == _getBucketIndex(nodeId, id)
              IN  /\ b \in 0..(NumBuckets - 1)
                  /\ MapHas(BucketAt(buckets, b), id)
                  /\ \A c \in DOMAIN buckets : MapHas(buckets[c], id) => c = b
        /\ \A c \in DOMAIN buckets :
              MapKeys(buckets[c]) \subseteq MapKeys(routingTable)


\* C34: stats.activeConnections equals the number of sessions in the
\* registry and is never negative, after any sequence of connect events (a
\* repeated connect of a registered peer included), disconnect events and
\* peer errors.
C34_ActiveConnectionsIsRegistrySize ==
    /\ stats.activeConnections = Len(peers)
    /\ stats.activeConnections >= 0


\* C35: when _disconnectPeer(peerId) has returned, peerId is no longer in
\* the session registry, also when closing the connection has thrown.
C35_DisconnectedPeerUnregistered ==
    ret.op = "_disconnectPeer" => ~MapHas(peers, ret.id)


\* the close event of connection c is dispatched in this step, and c is a
\* connection of a peer whose session holds a later connection
SupersededCloses(c) ==
    /\ conns[c].state \in {"open", "closing"}
    /\ conns'[c] = ClosedConn
    /\ MapHas(peers, conns[c].peer)
    /\ MapGet(peers, conns[c].peer).conn # c

\* C36: in the swarm variant, when a peer has connected again and the new
\* connection has replaced the earlier one in the registry, the close event
\* of the superseded connection removes neither the peer's current session
\* nor its routing entry.
C36_SupersededCloseKeepsSession ==
    [][\A c \in 1..Len(conns) :
          (variant = "swarm" /\ SupersededCloses(c))
              => /\ MapHas(peers', conns[c].peer)
                 /\ MapHas(routingTable', conns[c].peer)]_vars


\* C37: the routing entry initialize() stores under the local node's own
\* id is never modified by data a remote peer sends: a dht_exchange or
\* network_info message that names the local id leaves the entry's ip as
\* it was.
C37_OwnEntryNotOverwritten ==
    (initialized /\ MapHas(routingTable, nodeId)) =>
        MapGet(routingTable, nodeId).ip = LocalInfo.ip


\* the record holds a peerId with its key pair
CompletePeerId(file) == file.exists /\ file.kind = "object" /\ file.key # 0

\* C38: a persisted peerId that carries its key pair is never replaced by
\* a peerId without keys: after a saveNodeInfo call whose peerId is an
\* id-only string, an incomplete object or absent, the record still holds
\* the complete peerId that was stored before.
C38_CompletePeerIdKept ==
    [][(/\ proc.op = "store"
        /\ CompletePeerId(proc.file)
        /\ ret'.op = "saveNodeInfo"
        /\ ~CompletePeerId(proc'.info))
          => (/\ CompletePeerId(proc'.file)
              /\ proc'.file.id = proc.file.id
              /\ proc'.file.key = proc.file.key)]_vars


\* C39: once a createdAt value has been persisted in the node-info record,
\* every later saveNodeInfo call leaves createdAt unchanged, whatever
\* createdAt value (if any) the caller passes in.
C39_CreatedAtKept ==
    [][(proc.op = "createdAt" /\ proc.createdAt # 0)
          => proc'.createdAt = proc.createdAt]_vars

====
